---- MODULE Spec2Model ----
(***************************************************************************)
(* Wuhhuu Touch (src/main.js): a particle cloud that relaxes toward a      *)
(* target shape, is attracted or repelled by a tracked hand, and is        *)
(* splashed when the hand opens.                                           *)
(*                                                                         *)
(* src/main.js holds three successive drafts of the program.  The two that *)
(* contain the physics are modelled, selected by the variable `edition`:   *)
(*   "ultimate"  lines 1-383     "magical"  lines 699-1087                 *)
(*                                                                         *)
(* Numbers.  JavaScript numbers are modelled in fixed point: the integer n *)
(* stands for n/Scale.  Every product and quotient is rounded to the       *)
(* nearest multiple of 1/Scale (ties away from zero), the way an IEEE      *)
(* operation rounds to the nearest representable value.  The value NaN is  *)
(* modelled explicitly: it is produced by 0/0, it propagates through every *)
(* arithmetic operation and every comparison with it is false.             *)
(***************************************************************************)
EXTENDS Integers, Sequences, FiniteSets, TLC

Scale == 100
NaN == -999999999

\* Math.random() returns a multiple of 1/RandScale in [0, 1)
RandScale == 10000

-----------------------------------------------------------------------------
(* Arithmetic of JavaScript numbers *)

IsNaN(a) == a = NaN

Abs(a) == IF a < 0 THEN -a ELSE a

Sgn(a) == IF a < 0 THEN -1 ELSE IF a > 0 THEN 1 ELSE 0

Add(a, b) == IF IsNaN(a) \/ IsNaN(b) THEN NaN ELSE a + b

Sub(a, b) == IF IsNaN(a) \/ IsNaN(b) THEN NaN ELSE a - b

Neg(a) == IF IsNaN(a) THEN NaN ELSE -a

\* a * b, rounded to the nearest 1/Scale
Mul(a, b) ==
    IF IsNaN(a) \/ IsNaN(b) THEN NaN
    ELSE Sgn(a) * Sgn(b) * ((Abs(a) * Abs(b) + Scale \div 2) \div Scale)

\* r * b for a value r of Math.random() (or the difference of two), held at
\* scale RandScale; the result is at scale Scale
RandMul(r, b) == Sgn(r) * Sgn(b) * ((Abs(r) * Abs(b) + RandScale \div 2) \div RandScale)

\* Math.random() - 0.5, at scale RandScale
Centered(r) == r - RandScale \div 2

\* a / b, rounded to the nearest 1/Scale; 0/0 is NaN.  (x/0 with x # 0 would
\* be an infinity; no division of the program can produce it, and TLC stops
\* with an error if a model run ever asked for it.)
Div(a, b) ==
    IF IsNaN(a) \/ IsNaN(b) \/ (a = 0 /\ b = 0) THEN NaN
    ELSE Sgn(a) * Sgn(b) * ((2 * Abs(a) * Scale + Abs(b)) \div (2 * Abs(b)))

\* a < b and a > b as JavaScript evaluates them: false when either is NaN
Lt(a, b) == ~IsNaN(a) /\ ~IsNaN(b) /\ a < b

Gt(a, b) == ~IsNaN(a) /\ ~IsNaN(b) /\ a > b

Min(a, b) == IF IsNaN(a) \/ IsNaN(b) THEN NaN ELSE IF a < b THEN a ELSE b

RECURSIVE SqrtSearch(_, _, _)
\* the largest r in lo..hi with r*r <= n
SqrtSearch(n, lo, hi) ==
    IF lo >= hi THEN lo
    ELSE LET mid == (lo + hi + 1) \div 2
         IN  IF mid * mid <= n THEN SqrtSearch(n, mid, hi)
             ELSE SqrtSearch(n, lo, mid - 1)

\* the integer nearest to the square root of the natural number n
ISqrt(n) ==
    LET r == SqrtSearch(n, 0, 46340)
    IN  IF n - r * r > r THEN r + 1 ELSE r

\* Math.sqrt of a value held at scale Scale*Scale (a sum of exact products
\* of two fixed-point numbers); the result is at scale Scale
SqrtOfSq(n2) == IF IsNaN(n2) THEN NaN ELSE ISqrt(n2)

\* the exact product of two fixed-point numbers, at scale Scale*Scale
Sq2(a, b) == IF IsNaN(a) \/ IsNaN(b) THEN NaN ELSE a * b

-----------------------------------------------------------------------------
(* Vectors and flat buffers (x0,y0,z0,x1,y1,z1,...) *)

Zero3 == <<0, 0, 0>>

\* particle i (1-based) of a flat buffer
At(buf, i) == <<buf[3 * i - 2], buf[3 * i - 1], buf[3 * i]>>

RECURSIVE Flatten(_)
Flatten(vs) ==
    IF vs = <<>> THEN <<>> ELSE Head(vs) \o Flatten(Tail(vs))

HasNaN(buf) == \E j \in 1..Len(buf) : IsNaN(buf[j])

-----------------------------------------------------------------------------
(* Constants of the two drafts *)

Editions == {"ultimate", "magical"}

\* vx *= 0.91 (ultimate), vx *= 0.90 (magical)
Friction(ed) == IF ed = "ultimate" THEN 91 ELSE 90

\* targetCenter.lerp(hand, 0.15) (ultimate), 0.12 (magical)
FollowAlpha(ed) == IF ed = "ultimate" THEN 15 ELSE 12

\* targetCenter.lerp(origin, 0.05), both drafts
RelaxAlpha == 5

\* settings.force * 6 (ultimate), settings.force * 5 (magical)
SplashFactor(ed) == IF ed = "ultimate" THEN 600 ELSE 500

\* speed > 2.5 (ultimate), speed > 2.0 (magical)
SpeedThreshold(ed) == IF ed = "ultimate" THEN 250 ELSE 200

\* (speed - 2.5) * 0.15 (ultimate), (speed - 2.0) * 0.2 (magical)
HeatGain(ed) == IF ed = "ultimate" THEN 15 ELSE 20

\* let r = 0.1, g = 0.2, b = 0.8 (ultimate); g = 0.3 (magical)
BaseColor(ed) == IF ed = "ultimate" THEN <<10, 20, 80>> ELSE <<10, 30, 80>>

\* r += intensity * 0.9, g += intensity * 0.7 (0.6 magical), b += intensity * 0.2
HotOffset(ed) == IF ed = "ultimate" THEN <<90, 70, 20>> ELSE <<90, 60, 20>>

\* vx -= ... * 5.0 (fist), vx += ... * 2.0 (open hand)
AttractGain == 500
RepelGain == 200

\* variant: a lost hand parked at the origin instead of far away
SentinelAtOrigin == <<0, 0, 0>>

\* handPos.set(1000,1000,1000)
Sentinel == <<1000 * Scale, 1000 * Scale, 1000 * Scale>>

\* const settings = { count, size, speed: 0.08, force: 8.0, radius: 140, bloom }
\* (count is replaced by the model's particle count n)
DefaultSettings(n) == [count |-> n, speed |-> 8, force |-> 8 * Scale, radius |-> 140 * Scale]

-----------------------------------------------------------------------------
(* updateParticles *)

\* dx*dx + dy*dy + dz*dz < settings.radius * settings.radius.  A coordinate
\* difference of at least the radius decides the comparison by itself; the
\* squares are formed only below it, where they fit TLC's integers.
WithinRadius(d, radius) ==
    /\ ~IsNaN(d[1]) /\ ~IsNaN(d[2]) /\ ~IsNaN(d[3])
    /\ Abs(d[1]) < radius /\ Abs(d[2]) < radius /\ Abs(d[3]) < radius
    /\ d[1] * d[1] + d[2] * d[2] + d[3] * d[3] < radius * radius

\* variant: the two branches of the hand interaction exchanged
HandPushSwapped(dc, dist, force, closed) ==
    IF closed THEN Mul(Mul(Div(dc, dist), force), RepelGain)
    ELSE Neg(Mul(Mul(Div(dc, dist), force), AttractGain))

\* one axis of the hand interaction: (dx / dist) * force * 5.0 or * 2.0,
\* subtracted from the velocity for a fist and added for an open hand
HandPush(dc, dist, force, closed) ==
    IF closed THEN Neg(Mul(Mul(Div(dc, dist), force), AttractGain))
    ELSE Mul(Mul(Div(dc, dist), force), RepelGain)

\* the three axes, with force = (1 - dist / settings.radius)
HandPush3(d, dist, force, closed) ==
    <<HandPush(d[1], dist, force, closed), HandPush(d[2], dist, force, closed),
      HandPush(d[3], dist, force, closed)>>

\* const dist = Math.sqrt(distSq); const force = (1 - dist / settings.radius)
HandForceAt(d, dist, closed, radius) == HandPush3(d, dist, Sub(Scale, Div(dist, radius)), closed)

\* if (distSq < settings.radius * settings.radius) { ... }: the change of
\* velocity for the offset d = position - handPos, zero outside the radius
HandForce(d, closed, radius) ==
    IF WithinRadius(d, radius)
    THEN HandForceAt(d, SqrtOfSq(d[1] * d[1] + d[2] * d[2] + d[3] * d[3]), closed, radius)
    ELSE Zero3

\* step 2 of the loop body: the change of velocity the hand causes to a
\* particle at p
HandInteraction(p, hand, closed, radius) ==
    HandForce(<<Sub(p[1], hand[1]), Sub(p[2], hand[2]), Sub(p[3], hand[3])>>, closed, radius)

\* variant: the spring pulls to the shape origin, the particle's own target forgotten
SpringToCenter(tc, pc, center, speed) == Mul(Sub(center, pc), speed)

\* variant: the spring with its sign reversed
SpringAway(tc, pc, center, speed) == Mul(Sub(pc, Add(tc, center)), speed)

\* step 1: (tx - px) * settings.speed with tx = p_target[i] + targetCenter.x
SpringPull(tc, pc, center, speed) == Mul(Sub(Add(tc, center), pc), speed)

\* variant: friction damps the old velocity only, the forces are added after it
FrictionFirst(vc, spring, push, friction) == Add(Add(Mul(vc, friction), spring), push)

\* step 3, one axis: the velocity after spring, hand and friction
NewVelocity(vc, spring, push, friction) == Mul(Add(Add(vc, spring), push), friction)

\* step 4: Math.sqrt(vx*vx + vy*vy + vz*vz)
SpeedOf(v) ==
    IF IsNaN(v[1]) \/ IsNaN(v[2]) \/ IsNaN(v[3]) THEN NaN
    ELSE SqrtOfSq(v[1] * v[1] + v[2] * v[2] + v[3] * v[3])

\* r += intensity * 0.9; g += intensity * 0.7; b += intensity * 0.2
Blend(intensity, ed) ==
    <<Add(BaseColor(ed)[1], Mul(intensity, HotOffset(ed)[1])),
      Add(BaseColor(ed)[2], Mul(intensity, HotOffset(ed)[2])),
      Add(BaseColor(ed)[3], Mul(intensity, HotOffset(ed)[3]))>>

\* variant: the intensity is not capped, Math.min forgotten
ColorUncapped(speed, ed) ==
    IF Gt(speed, SpeedThreshold(ed))
    THEN Blend(Mul(Sub(speed, SpeedThreshold(ed)), HeatGain(ed)), ed)
    ELSE BaseColor(ed)

\* if (speed > 2.5) { intensity = Math.min((speed - 2.5) * 0.15, 1.0); ... }
ColorAtSpeed(speed, ed) ==
    IF Gt(speed, SpeedThreshold(ed))
    THEN Blend(Min(Mul(Sub(speed, SpeedThreshold(ed)), HeatGain(ed)), Scale), ed)
    ELSE BaseColor(ed)

\* step 4: the colour of a particle of velocity v
ColorOf(v, ed) == ColorAtSpeed(SpeedOf(v), ed)

\* px += vx, and what the iteration stores: pos[i], p_vel[i], col[i]
Moved(p, nv, push, ed) ==
    [pos |-> <<Add(p[1], nv[1]), Add(p[2], nv[2]), Add(p[3], nv[3])>>,
     vel |-> nv, col |-> ColorOf(nv, ed), push |-> push]

\* variant: explicit Euler, the position advanced by the velocity from
\* before the tick
IntegrateExplicit(p, v, t, center, push, st, ed) ==
    [pos |-> <<Add(p[1], v[1]), Add(p[2], v[2]), Add(p[3], v[3])>>,
     vel |-> <<NewVelocity(v[1], SpringPull(t[1], p[1], center[1], st.speed), push[1], Friction(ed)),
               NewVelocity(v[2], SpringPull(t[2], p[2], center[2], st.speed), push[2], Friction(ed)),
               NewVelocity(v[3], SpringPull(t[3], p[3], center[3], st.speed), push[3], Friction(ed))>>,
     col |-> ColorOf(<<NewVelocity(v[1], SpringPull(t[1], p[1], center[1], st.speed), push[1], Friction(ed)),
                       NewVelocity(v[2], SpringPull(t[2], p[2], center[2], st.speed), push[2], Friction(ed)),
                       NewVelocity(v[3], SpringPull(t[3], p[3], center[3], st.speed), push[3], Friction(ed))>>, ed),
     push |-> push]

\* steps 1 and 3 on the three axes, given the hand's push
Integrate(p, v, t, center, push, st, ed) ==
    Moved(p,
          <<NewVelocity(v[1], SpringPull(t[1], p[1], center[1], st.speed), push[1], Friction(ed)),
            NewVelocity(v[2], SpringPull(t[2], p[2], center[2], st.speed), push[2], Friction(ed)),
            NewVelocity(v[3], SpringPull(t[3], p[3], center[3], st.speed), push[3], Friction(ed))>>,
          push, ed)

\* one iteration of the loop of updateParticles, for the particle with
\* position p, velocity v and target t
UpdateParticle(p, v, t, center, hand, closed, st, ed) ==
    Integrate(p, v, t, center, HandInteraction(p, hand, closed, st.radius), st, ed)

\* buf with particle i overwritten by the vector w
Put(buf, i, w) ==
    [j \in 1..Len(buf) |->
        IF j = 3 * i - 2 THEN w[1] ELSE IF j = 3 * i - 1 THEN w[2]
        ELSE IF j = 3 * i THEN w[3] ELSE buf[j]]

RECURSIVE UpdateLoopCarry(_, _, _, _, _, _, _, _, _, _, _)
CarryStore(i, pos, vel, col, pushes, u, tgt, center, hand, closed, st, ed) ==
    UpdateLoopCarry(i + 1, Put(pos, i, u.pos), Put(vel, i, u.vel), Put(col, i, u.col),
                    Put(pushes, i, u.push), tgt, center, hand, closed, st, ed)

\* variant: vx, vy, vz are declared outside the loop and not read again, so
\* that a particle starts from the velocity the one before it ended with
UpdateLoopCarry(i, pos, vel, col, pushes, tgt, center, hand, closed, st, ed) ==
    IF i > st.count THEN [pos |-> pos, vel |-> vel, col |-> col, pushes |-> pushes]
    ELSE CarryStore(i, pos, vel, col, pushes,
                    UpdateParticle(At(pos, i), At(vel, IF i > 1 THEN i - 1 ELSE i), At(tgt, i),
                                   center, hand, closed, st, ed),
                    tgt, center, hand, closed, st, ed)

RECURSIVE UpdateLoop(_, _, _, _, _, _, _, _, _, _, _)
\* the end of iteration i: its results u are stored, and the loop goes on
StoreParticle(i, pos, vel, col, pushes, u, tgt, center, hand, closed, st, ed) ==
    UpdateLoop(i + 1, Put(pos, i, u.pos), Put(vel, i, u.vel), Put(col, i, u.col),
               Put(pushes, i, u.push), tgt, center, hand, closed, st, ed)

\* for (let i = 0; i < settings.count * 3; i += 3): the buffers are updated in
\* place, particle i reading them as the earlier iterations left them
UpdateLoop(i, pos, vel, col, pushes, tgt, center, hand, closed, st, ed) ==
    IF i > st.count THEN [pos |-> pos, vel |-> vel, col |-> col, pushes |-> pushes]
    ELSE StoreParticle(i, pos, vel, col, pushes,
                       UpdateParticle(At(pos, i), At(vel, i), At(tgt, i), center, hand, closed, st, ed),
                       tgt, center, hand, closed, st, ed)

-----------------------------------------------------------------------------
(* triggerSplash *)

\* p_vel[i] += (Math.random() - 0.5) * settings.force * 6, with the value
\* Math.random() returned for that component given in draws[i]
TriggerSplash(vel, draws, force, ed) ==
    [j \in 1..Len(vel) |->
        Add(vel[j], Mul(RandMul(Centered(draws[j]), force), SplashFactor(ed)))]

-----------------------------------------------------------------------------
(* Math library functions at the arguments the modelled draws reach; the   *)
(* values are the real values rounded to 1/Scale.                          *)

\* Math.PI
Pi == 314

\* Math.sin and Math.cos
Sin(a) ==
    CASE a = 0 -> 0 [] a = 63 -> 59 [] a = 79 -> 71 [] a = 105 -> 87 [] a = 126 -> 95
      [] a = 157 -> 100 [] a = 158 -> 100 [] a = 314 -> 0

Cos(a) ==
    CASE a = 0 -> 100 [] a = 63 -> 81 [] a = 79 -> 70 [] a = 105 -> 50 [] a = 126 -> 31
      [] a = 157 -> 0 [] a = 158 -> -1 [] a = 314 -> -100

\* Math.acos
Acos(c) ==
    CASE c = -100 -> 314 [] c = -50 -> 209 [] c = 0 -> 157 [] c = 50 -> 105
      [] c = 98 -> 20 [] c = 100 -> 0

\* Math.atan2(y, x) on the axes and the diagonal of the first quadrant
Atan2(y, x) ==
    CASE y = 0 /\ x >= 0 -> 0
      [] y = 0 /\ x < 0 -> 314
      [] x = 0 /\ y > 0 -> 157
      [] x = 0 /\ y < 0 -> -157
      [] y = x /\ x > 0 -> 79

\* Math.cbrt of a value r of Math.random()
RandCbrt(r) ==
    CHOOSE c \in 0..Scale :
        \A e \in 0..Scale : Abs(c * c * c - r * Scale) <= Abs(e * e * e - r * Scale)

\* Math.sqrt of a value r of Math.random()
RandSqrt(r) == ISqrt(r)

\* a % b of JavaScript: the remainder has the sign of the dividend
JSMod(a, b) == Sgn(a) * (Abs(a) % Abs(b))

\* a ** 3
Pow3(a) == Mul(Mul(a, a), a)

-----------------------------------------------------------------------------
(* calculateShapes: the point each loop iteration builds from the values   *)
(* Math.random() returned to it (d[1], d[2], d[3], in call order)          *)

\* sphere: r = 100 * cbrt(random), theta = random * PI * 2, phi = acos(2 * random - 1)
SpherePoint(d) ==
    LET r == Mul(100 * Scale, RandCbrt(d[1]))
        theta == Mul(RandMul(d[2], Pi), 2 * Scale)
        phi == Acos(Sub(RandMul(d[3], 2 * Scale), Scale))
    IN  <<Mul(Mul(r, Sin(phi)), Cos(theta)), Mul(Mul(r, Sin(phi)), Sin(theta)), Mul(r, Cos(phi))>>

\* heart: the candidate (random - 0.5) * 3.5 on each axis
HeartCandidate(d) ==
    <<RandMul(Centered(d[1]), 350), RandMul(Centered(d[2]), 350), RandMul(Centered(d[3]), 350)>>

\* ultimate: (x*x + (9/4)*y*y + z*z - 1)**3 - x*x*z**3 - (9/80)*y*y*z**3 < 0
\* magical:  a*a*a - x*x*z*z*z - (9/80)*y*y*z*z*z < 0
HeartInside(c, ed) ==
    LET x == c[1]
        y == c[2]
        z == c[3]
        a == Sub(Add(Add(Mul(x, x), Mul(Mul(Div(9 * Scale, 4 * Scale), y), y)), Mul(z, z)), Scale)
        k == Div(9 * Scale, 80 * Scale)
    IN  IF ed = "ultimate"
        THEN Lt(Sub(Sub(Pow3(a), Mul(Mul(x, x), Pow3(z))), Mul(Mul(Mul(k, y), y), Pow3(z))), 0)
        ELSE Lt(Sub(Sub(Mul(Mul(a, a), a), Mul(Mul(Mul(Mul(x, x), z), z), z)),
                    Mul(Mul(Mul(Mul(Mul(k, y), y), z), z), z)), 0)

\* s_heart.push(x * 70, y * 70, z * 70)
HeartPoint(c) == <<Mul(c[1], 70 * Scale), Mul(c[2], 70 * Scale), Mul(c[3], 70 * Scale)>>

\* ultimate star (no rejection): a polar point below maxR, R_outer = 130,
\* R_inner = 55, depth = 25
StarPolarPoint(d) ==
    LET angle == Mul(RandMul(d[1], Pi), 2 * Scale)
        sectorAngle == Div(Mul(Pi, 2 * Scale), 5 * Scale)
        relativeAngle == JSMod(angle, sectorAngle)
        foldAngle == Abs(Sub(relativeAngle, Div(sectorAngle, 2 * Scale)))
        maxR == Add(Mul(130 * Scale, Sub(Scale, Mul(foldAngle, 80))),
                    Mul(55 * Scale, Mul(foldAngle, 80)))
        r == Mul(RandSqrt(d[2]), maxR)
    IN  <<Mul(r, Cos(angle)), Mul(r, Sin(angle)), RandMul(Centered(d[3]), 25 * Scale)>>

\* magical star: the candidate in the box, R = 130, depth = 30
StarCandidate(d) ==
    <<Mul(RandMul(Centered(d[1]), 2 * Scale), 130 * Scale),
      Mul(RandMul(Centered(d[2]), 2 * Scale), 130 * Scale),
      RandMul(Centered(d[3]), 30 * Scale)>>

\* magical star: sqrt(x*x + y*y)
StarDist(c) == SqrtOfSq(c[1] * c[1] + c[2] * c[2])

\* magical star: dist < limit, with R = 130 and r = 50
StarInside(c) ==
    LET angle == Add(Atan2(c[2], c[1]), Div(Pi, 2 * Scale))
        w == Div(Mul(Pi, 2 * Scale), 5 * Scale)
        fold == Abs(Sub(JSMod(angle, w), Div(w, 2 * Scale)))
        slope == Div(fold, Div(w, 180))
        limit == Add(Mul(130 * Scale, Sub(Scale, slope)), Mul(50 * Scale, slope))
    IN  Lt(StarDist(c), limit)

\* magical star: s_star.push(x, y, z * (1 + puff*2)) with puff = 1 - dist/R
StarPuffPoint(c) ==
    LET puff == Sub(Scale, Div(StarDist(c), 130 * Scale))
    IN  <<c[1], c[2], Mul(c[3], Add(Scale, Mul(puff, 2 * Scale)))>>

\* cube: (random - 0.5) * 160 on each axis
CubePoint(d) ==
    <<RandMul(Centered(d[1]), 160 * Scale), RandMul(Centered(d[2]), 160 * Scale),
      RandMul(Centered(d[3]), 160 * Scale)>>

\* createParticles: c.setHSL(0.6 + Math.random() * 0.2, 0.9, 0.6) (ultimate),
\* setHSL(0.6 + Math.random() * 0.1, 0.8, 0.5) (magical), for Math.random() = 0
InitialColor(ed) == IF ed = "ultimate" THEN <<24, 53, 96>> ELSE <<10, 42, 90>>

-----------------------------------------------------------------------------
(* Bounds of the model and the inputs drawn from the environment *)

\* settings.count (30000 and 25000 in the drafts)
NumParticles == 2

\* calls of animate() the model follows
MaxFrames == 3

\* user-interface events (shape buttons, sliders) the model follows
MaxEvents == 1

\* calls of animate() and user-interface events followed while no camera runs
MaxRelaxFrames == 10
MaxRelaxEvents == 2

\* calls of animate() followed while a hand gestures before the camera
MaxGestureFrames == 7
MaxSettleFrames == 4
MaxPairFrames == 3
MaxStepFrames == 2
MaxLostFrames == 5
MaxShapeEvents == 2
MaxLoopFrames == 2

\* the values of Math.random() a loop iteration of calculateShapes may see
SphereDraws == {<<0, 0, 5000>>, <<1250, 0, 5000>>}
HeartDraws == {<<5000, 5000, 5000>>, <<9900, 9900, 9900>>}
StarPolarDraws == {<<0, 0, 5000>>}
StarBoxDraws == {<<5000, 5000, 5000>>, <<9900, 9900, 5000>>}
CubeDraws == {<<5625, 5000, 5000>>}

\* further values of Math.random(), followed where only calculateShapes runs:
\* sphere points on the surface, on an axis and off the axes
WideSphereDraws == SphereDraws \cup {<<9999, 0, 5000>>, <<9999, 2500, 7500>>}
\* the heart candidate (0, 0, 0.9)
WideHeartDraws == HeartDraws \cup {<<5000, 5000, 7571>>}
\* star points at the angle 0, far out, in the middle and at the edge of the slab
WideStarPolarDraws == StarPolarDraws \cup {<<0, 8100, 5000>>, <<0, 8100, 9999>>}
\* the star candidates (0, -54.6, 0) and (0, 0, 14)
WideStarBoxDraws == StarBoxDraws \cup {<<5000, 2900, 5000>>, <<5000, 5000, 9667>>}
\* a cube point on two faces
WideCubeDraws == CubeDraws \cup {<<0, 9999, 5000>>}

\* the values of Math.random() one call of triggerSplash may see, one per
\* velocity component
SplashDraws(n) == {[j \in 1..(3 * n) |-> 0], [j \in 1..(3 * n) |-> IF j % 2 = 1 THEN 9900 ELSE 5000]}

\* a hand as the landmarker reports it: wrist lm[0], middle-finger base
\* lm[9] and the four finger tips lm[8], lm[12], lm[16], lm[20], in image
\* coordinates; the palm centre is (cx, cy) and the tips are `reach` above the wrist
Hand(cx, cy, reach) ==
    [wrist |-> <<cx, cy + 10>>, middle |-> <<cx, cy - 10>>,
     tips |-> <<<<cx - 6, cy + 10 - reach>>, <<cx - 2, cy + 10 - reach>>,
                <<cx + 2, cy + 10 - reach>>, <<cx + 6, cy + 10 - reach>>>>]

NoHand == [wrist |-> <<>>, middle |-> <<>>, tips |-> <<>>]

\* res.landmarks of one detectForVideo call: no hand, a fist at the image
\* centre, or an open hand left of it
Landmarks == {NoHand, Hand(50, 50, 15), Hand(30, 50, 40)}

\* a hand left of the image centre, closed or open, or no hand
SideLandmarks == {NoHand, Hand(30, 50, 15), Hand(30, 50, 40)}

\* a hand that stays at the image centre, closed or open, or leaves
CentreLandmarks == {NoHand, Hand(50, 50, 15), Hand(50, 50, 40)}

\* the shape names a button may pass to setShape
ShapeNames == {"sphere", "cube", "heart", "star"}
ButtonNames == ShapeNames \cup {"torus"}
\* any string may reach window.setShape; "constructor" is a name every object
\* inherits from Object.prototype
AnyNames == ButtonNames \cup {"constructor"}

\* the values the speed and force sliders may deliver
SpeedValues == {5}
ForceValues == {4 * Scale}

-----------------------------------------------------------------------------
(* State *)

VARIABLES
    edition,          \* which draft runs
    pc,               \* position of init(): the loops of calculateShapes, createParticles,
                      \* the await of initVision, then "running" or "failed"
    settings,         \* const settings
    s_sphere, s_heart, s_star, s_cube,   \* the arrays calculateShapes fills
    cand,             \* the candidate x, y, z of a rejection loop
    shapes,           \* const shapes; <<>> stands for null
    particlesMesh,    \* whether createParticles has built the mesh
    p_pos, p_target, p_vel, p_color,     \* the particle buffers
    handPos, targetCenter, isHandClosed, wasHandClosed,
    handLandmarker,   \* whether the landmarker is loaded
    isWebcamRunning,
    lastVideoTime,
    videoTime,        \* video.currentTime
    frames,           \* calls of animate() so far (of those of SettleIdle, the parity)
    events,           \* user-interface events so far
    obsLog,           \* the gesture flag (TRUE = fist) of every hand observation processed
    splashCount,      \* calls of triggerSplash so far
    targetWrites,     \* calls of p_target.set made by setShape so far
    lastPush,         \* the hand-interaction velocity change of every particle in the last tick
    lastRaw           \* the hand position observed in the last frame, <<>> when none was

genVars == <<s_sphere, s_heart, s_star, s_cube, cand, shapes>>
bufVars == <<p_pos, p_target, p_vel, p_color>>
handVars == <<handPos, targetCenter, isHandClosed, wasHandClosed>>
videoVars == <<handLandmarker, isWebcamRunning, lastVideoTime, videoTime>>
logVars == <<frames, events, obsLog, splashCount, targetWrites, lastPush, lastRaw>>
vars == <<edition, pc, settings, genVars, particlesMesh, bufVars, handVars, videoVars, logVars>>

\* the module-level declarations (lines 17-39, 719-740), before init() runs
Init ==
    /\ edition \in Editions
    /\ pc = "sphere"
    /\ \E n \in 1..NumParticles : settings = DefaultSettings(n)
    /\ s_sphere = <<>> /\ s_heart = <<>> /\ s_star = <<>> /\ s_cube = <<>>
    /\ cand = <<>>
    /\ shapes = [sphere |-> <<>>, cube |-> <<>>, heart |-> <<>>, star |-> <<>>]
    /\ particlesMesh = FALSE
    /\ p_pos = <<>> /\ p_target = <<>> /\ p_vel = <<>> /\ p_color = <<>>
    /\ handPos = Sentinel
    /\ targetCenter = Zero3
    /\ isHandClosed = FALSE /\ wasHandClosed = FALSE
    /\ handLandmarker = FALSE
    /\ isWebcamRunning = FALSE
    /\ lastVideoTime = -Scale
    /\ videoTime = 0
    /\ frames = 0 /\ events = 0 /\ obsLog = <<>> /\ splashCount = 0 /\ targetWrites = 0
    /\ lastPush = <<>> /\ lastRaw = <<>>

-----------------------------------------------------------------------------
(* init(): calculateShapes, one loop iteration per step *)

\* variant: the loops stop one point early
FullButOne(arr) == Len(arr) >= 3 * (settings.count - 1)

\* the loop condition i < settings.count (h, st), negated: the array holds all its points
Full(arr) == Len(arr) >= 3 * settings.count

\* 1. SPHERE: for (let i = 0; i < settings.count; i++) s_sphere.push(...)
SphereStepFrom(draws) ==
    /\ pc = "sphere"
    /\ \E d \in draws :
        /\ s_sphere' = s_sphere \o SpherePoint(d)
        /\ pc' = IF Full(s_sphere \o SpherePoint(d)) THEN "heart" ELSE "sphere"
    /\ UNCHANGED <<edition, settings, s_heart, s_star, s_cube, cand, shapes, particlesMesh,
                   bufVars, handVars, videoVars, logVars>>

SphereStep == SphereStepFrom(SphereDraws)

\* 2. HEART: while (h < settings.count) { draw x, y, z; ...
HeartDrawFrom(draws) ==
    /\ pc = "heart"
    /\ \E d \in draws : cand' = HeartCandidate(d)
    /\ pc' = "heartTest"
    /\ UNCHANGED <<edition, settings, s_sphere, s_heart, s_star, s_cube, shapes, particlesMesh,
                   bufVars, handVars, videoVars, logVars>>

HeartDraw == HeartDrawFrom(HeartDraws)

\* variant: every candidate is kept, the test forgotten
HeartKeepAll ==
    /\ pc = "heartTest"
    /\ s_heart' = s_heart \o HeartPoint(cand)
    /\ pc' = IF Len(s_heart \o HeartPoint(cand)) >= 3 * settings.count THEN "star" ELSE "heart"
    /\ UNCHANGED <<edition, settings, s_sphere, s_star, s_cube, cand, shapes, particlesMesh,
                   bufVars, handVars, videoVars, logVars>>

\* ... if (inside) { s_heart.push(...); h++ } }: a rejected candidate is
\* dropped and the loop draws again, without any count of the attempts
HeartTest ==
    /\ pc = "heartTest"
    /\ IF HeartInside(cand, edition)
       THEN /\ s_heart' = s_heart \o HeartPoint(cand)
            /\ pc' = IF Full(s_heart \o HeartPoint(cand)) THEN "star" ELSE "heart"
       ELSE /\ s_heart' = s_heart
            /\ pc' = "heart"
    /\ UNCHANGED <<edition, settings, s_sphere, s_star, s_cube, cand, shapes, particlesMesh,
                   bufVars, handVars, videoVars, logVars>>

\* 3. STAR of the ultimate draft: while (st < settings.count) { ...; st++ }
StarStepFrom(draws) ==
    /\ pc = "star"
    /\ edition = "ultimate"
    /\ \E d \in draws :
        /\ s_star' = s_star \o StarPolarPoint(d)
        /\ pc' = IF Full(s_star \o StarPolarPoint(d)) THEN "cube" ELSE "star"
    /\ UNCHANGED <<edition, settings, s_sphere, s_heart, s_cube, cand, shapes, particlesMesh,
                   bufVars, handVars, videoVars, logVars>>

StarStep == StarStepFrom(StarPolarDraws)

\* 3. STAR of the magical draft: while (st < settings.count) { draw x, y, z; ...
StarDrawFrom(draws) ==
    /\ pc = "star"
    /\ edition = "magical"
    /\ \E d \in draws : cand' = StarCandidate(d)
    /\ pc' = "starTest"
    /\ UNCHANGED <<edition, settings, s_sphere, s_heart, s_star, s_cube, shapes, particlesMesh,
                   bufVars, handVars, videoVars, logVars>>

StarDraw == StarDrawFrom(StarBoxDraws)

\* ... if (dist < limit) { s_star.push(...); st++ } }
StarTest ==
    /\ pc = "starTest"
    /\ IF StarInside(cand)
       THEN /\ s_star' = s_star \o StarPuffPoint(cand)
            /\ pc' = IF Full(s_star \o StarPuffPoint(cand)) THEN "cube" ELSE "star"
       ELSE /\ s_star' = s_star
            /\ pc' = "star"
    /\ UNCHANGED <<edition, settings, s_sphere, s_heart, s_cube, cand, shapes, particlesMesh,
                   bufVars, handVars, videoVars, logVars>>

\* 4. CUBE: for (let i = 0; i < settings.count; i++) s_cube.push(...)
CubeStepFrom(draws) ==
    /\ pc = "cube"
    /\ \E d \in draws :
        /\ s_cube' = s_cube \o CubePoint(d)
        /\ pc' = IF Full(s_cube \o CubePoint(d)) THEN "assign" ELSE "cube"
    /\ UNCHANGED <<edition, settings, s_sphere, s_heart, s_star, cand, shapes, particlesMesh,
                   bufVars, handVars, videoVars, logVars>>

CubeStep == CubeStepFrom(CubeDraws)

\* shapes.sphere = new Float32Array(s_sphere); ... heart, star, cube
AssignShapes ==
    /\ pc = "assign"
    /\ shapes' = [sphere |-> s_sphere, heart |-> s_heart, star |-> s_star, cube |-> s_cube]
    /\ pc' = "create"
    /\ UNCHANGED <<edition, settings, s_sphere, s_heart, s_star, s_cube, cand, particlesMesh,
                   bufVars, handVars, videoVars, logVars>>

-----------------------------------------------------------------------------
(* init(): createParticles *)

\* new Float32Array(len): all zero
\* variant: one element per particle, the factor 3 forgotten
OnePerParticle(len) == [j \in 1..(len \div 3) |-> 0]

Zeros(len) == [j \in 1..len |-> 0]

\* buf.set(src) of a typed array: src is copied to the front of buf; a
\* source longer than buf throws a RangeError and copies nothing
SetInto(buf, src) ==
    IF Len(src) > Len(buf) THEN buf
    ELSE [j \in 1..Len(buf) |-> IF j <= Len(src) THEN src[j] ELSE buf[j]]

RECURSIVE Repeat(_, _)
\* the vector w once per particle
Repeat(w, n) == IF n = 0 THEN <<>> ELSE w \o Repeat(w, n - 1)

CreateParticles ==
    /\ pc = "create"
    /\ p_pos' = SetInto(Zeros(settings.count * 3), shapes.sphere)
    /\ p_target' = SetInto(Zeros(settings.count * 3), shapes.sphere)
    /\ p_vel' = Zeros(settings.count * 3)
    /\ p_color' = Repeat(InitialColor(edition), settings.count)
    /\ particlesMesh' = TRUE
    /\ pc' = "vision"
    /\ UNCHANGED <<edition, settings, genVars, handVars, videoVars, logVars>>

-----------------------------------------------------------------------------
(* detectHands *)

\* a.lerp(b, alpha) of THREE.Vector3, one component
\* variant: the step taken from b toward a, away from the destination
LerpAway(a, b, alpha) == Add(a, Mul(Sub(a, b), alpha))

Lerp(a, b, alpha) == Add(a, Mul(Sub(b, a), alpha))

Lerp3(a, b, alpha) == <<Lerp(a[1], b[1], alpha), Lerp(a[2], b[2], alpha), Lerp(a[3], b[3], alpha)>>

\* Map 2D -> 3D: x = (0.5 - (p.x+f.x)/2) * 500, y = (0.5 - (p.y+f.y)/2) * 400
ObservedPosition(lm) ==
    <<Mul(Sub(Scale \div 2, Div(Add(lm.wrist[1], lm.middle[1]), 2 * Scale)), 500 * Scale),
      Mul(Sub(Scale \div 2, Div(Add(lm.wrist[2], lm.middle[2]), 2 * Scale)), 400 * Scale),
      0>>

\* the distance of finger tip k from the wrist
TipDistance(lm, k) ==
    LET dx == Sub(lm.tips[k][1], lm.wrist[1])
        dy == Sub(lm.tips[k][2], lm.wrist[2])
    IN  SqrtOfSq(dx * dx + dy * dy)

\* Fist Check: isHandClosed = (d/4 < 0.22), d the sum of the four tip distances
FistCheck(lm) ==
    LET d == Add(Add(Add(Add(0, TipDistance(lm, 1)), TipDistance(lm, 2)), TipDistance(lm, 3)),
                 TipDistance(lm, 4))
    IN  Lt(Div(d, 4 * Scale), 22)

\* variant: the blast fires on every change of the gesture
ChangedHand(was, is) == was # is

\* Trigger Blast if we opened hand: if (wasHandClosed && !isHandClosed)
OpenedHand(was, is) == was /\ ~is

\* variant: handPos takes the observed position, not the smoothed one
HandSeenRaw(now, raw, center, closed, draws) ==
    [handPos |-> raw, targetCenter |-> center,
     isHandClosed |-> closed, wasHandClosed |-> closed,
     lastVideoTime |-> now,
     vel |-> IF wasHandClosed /\ ~closed
             THEN TriggerSplash(p_vel, draws, settings.force, edition)
             ELSE p_vel,
     observed |-> TRUE, splash |-> wasHandClosed /\ ~closed, raw |-> raw]

\* variant: wasHandClosed = isHandClosed forgotten after the check
HandSeenStale(now, raw, center, closed, draws) ==
    [handPos |-> center, targetCenter |-> center,
     isHandClosed |-> closed, wasHandClosed |-> wasHandClosed,
     lastVideoTime |-> now,
     vel |-> IF OpenedHand(wasHandClosed, closed)
             THEN TriggerSplash(p_vel, draws, settings.force, edition)
             ELSE p_vel,
     observed |-> TRUE, splash |-> OpenedHand(wasHandClosed, closed), raw |-> raw]

\* the hand branch of detectHands, for the observed position raw and the
\* gesture flag closed
HandSeen(now, raw, center, closed, draws) ==
    [handPos |-> center, targetCenter |-> center,
     isHandClosed |-> closed, wasHandClosed |-> closed,
     lastVideoTime |-> now,
     vel |-> IF OpenedHand(wasHandClosed, closed)
             THEN TriggerSplash(p_vel, draws, settings.force, edition)
             ELSE p_vel,
     observed |-> TRUE, splash |-> OpenedHand(wasHandClosed, closed), raw |-> raw]

\* targetCenter.lerp(new THREE.Vector3(x, y, 0), 0.15); handPos.copy(targetCenter)
HandAt(now, raw, closed, draws) ==
    HandSeen(now, raw, Lerp3(targetCenter, raw, FollowAlpha(edition)), closed, draws)

\* variant: every frame is processed, whether the video has advanced or not
DetectHandsAlways(now, lm, draws) ==
    LET same == [handPos |-> handPos, targetCenter |-> targetCenter,
                 isHandClosed |-> isHandClosed, wasHandClosed |-> wasHandClosed,
                 lastVideoTime |-> lastVideoTime, vel |-> p_vel,
                 observed |-> FALSE, splash |-> FALSE, raw |-> <<>>]
    IN  IF ~handLandmarker \/ ~isWebcamRunning THEN same
        ELSE IF lm # NoHand
        THEN HandAt(now, ObservedPosition(lm), FistCheck(lm), draws)
        ELSE [same EXCEPT !.targetCenter = Lerp3(targetCenter, Zero3, RelaxAlpha),
                          !.handPos = Sentinel,
                          !.lastVideoTime = now]

\* variant: the branch without a hand clears the gesture flags
DetectHandsReset(now, lm, draws) ==
    LET same == [handPos |-> handPos, targetCenter |-> targetCenter,
                 isHandClosed |-> isHandClosed, wasHandClosed |-> wasHandClosed,
                 lastVideoTime |-> lastVideoTime, vel |-> p_vel,
                 observed |-> FALSE, splash |-> FALSE, raw |-> <<>>]
    IN  IF ~handLandmarker \/ ~isWebcamRunning THEN same
        ELSE IF now = lastVideoTime THEN same
        ELSE IF lm # NoHand
        THEN HandAt(now, ObservedPosition(lm), FistCheck(lm), draws)
        ELSE [same EXCEPT !.targetCenter = Lerp3(targetCenter, Zero3, RelaxAlpha),
                          !.handPos = Sentinel,
                          !.isHandClosed = FALSE,
                          !.wasHandClosed = FALSE,
                          !.lastVideoTime = now]

\* the state detectHands leaves, given video.currentTime `now`, the
\* landmarks `lm` the landmarker would report and the random values `draws`
\* a splash would use
DetectHands(now, lm, draws) ==
    LET same == [handPos |-> handPos, targetCenter |-> targetCenter,
                 isHandClosed |-> isHandClosed, wasHandClosed |-> wasHandClosed,
                 lastVideoTime |-> lastVideoTime, vel |-> p_vel,
                 observed |-> FALSE, splash |-> FALSE, raw |-> <<>>]
    IN  IF ~handLandmarker \/ ~isWebcamRunning THEN same
        ELSE IF now = lastVideoTime THEN same
        ELSE IF lm # NoHand
        THEN HandAt(now, ObservedPosition(lm), FistCheck(lm), draws)
        ELSE [same EXCEPT !.targetCenter = Lerp3(targetCenter, Zero3, RelaxAlpha),
                          !.handPos = Sentinel,
                          !.lastVideoTime = now]

-----------------------------------------------------------------------------
(* animate(): detectHands(); updateParticles(); controls.update(); render *)

\* the state updateParticles leaves when it runs on velocities vel with the
\* influence state (center, hand, closed)
UpdateParticles(vel, center, hand, closed) ==
    IF ~particlesMesh
    THEN [pos |-> p_pos, vel |-> vel, col |-> p_color, pushes |-> lastPush]
    ELSE UpdateLoop(1, p_pos, vel, p_color, Zeros(3 * settings.count), p_target,
                    center, hand, closed, settings, edition)

\* variant: the target buffer is the position buffer itself, so that a tick
\* writes it too
FrameAliased(now, lm, draws, n) ==
    \E dh \in {DetectHands(now, lm, draws)} :
    \E up \in {UpdateParticles(dh.vel, dh.targetCenter, dh.handPos, dh.isHandClosed)} :
        /\ handPos' = dh.handPos
        /\ targetCenter' = dh.targetCenter
        /\ isHandClosed' = dh.isHandClosed
        /\ wasHandClosed' = dh.wasHandClosed
        /\ lastVideoTime' = dh.lastVideoTime
        /\ videoTime' = now
        /\ p_pos' = up.pos
        /\ p_target' = up.pos
        /\ p_vel' = up.vel
        /\ p_color' = up.col
        /\ lastPush' = up.pushes
        /\ lastRaw' = dh.raw
        /\ obsLog' = IF dh.observed THEN Append(obsLog, dh.isHandClosed) ELSE obsLog
        /\ splashCount' = IF dh.splash THEN splashCount + 1 ELSE splashCount
        /\ frames' = n
        /\ UNCHANGED <<edition, settings, genVars, particlesMesh, handLandmarker,
                       isWebcamRunning, events, targetWrites>>

\* variant: animate() calls updateParticles before detectHands, so that a
\* splash reaches the velocities after the tick
FrameSplashLast(now, lm, draws, n) ==
    \E dh \in {DetectHands(now, lm, draws)} :
    \E up \in {UpdateParticles(p_vel, dh.targetCenter, dh.handPos, dh.isHandClosed)} :
        /\ handPos' = dh.handPos
        /\ targetCenter' = dh.targetCenter
        /\ isHandClosed' = dh.isHandClosed
        /\ wasHandClosed' = dh.wasHandClosed
        /\ lastVideoTime' = dh.lastVideoTime
        /\ videoTime' = now
        /\ p_pos' = up.pos
        /\ p_vel' = IF dh.splash THEN TriggerSplash(up.vel, draws, settings.force, edition)
                   ELSE up.vel
        /\ p_color' = up.col
        /\ lastPush' = up.pushes
        /\ lastRaw' = dh.raw
        /\ obsLog' = IF dh.observed THEN Append(obsLog, dh.isHandClosed) ELSE obsLog
        /\ splashCount' = IF dh.splash THEN splashCount + 1 ELSE splashCount
        /\ frames' = n
        /\ UNCHANGED <<edition, settings, genVars, particlesMesh, p_target, handLandmarker,
                       isWebcamRunning, events, targetWrites>>

\* one call of animate(), the video standing at `now`; `n` is what the count
\* of the calls becomes
FrameAt(now, lm, draws, n) ==
    \E dh \in {DetectHands(now, lm, draws)} :
    \E up \in {UpdateParticles(dh.vel, dh.targetCenter, dh.handPos, dh.isHandClosed)} :
        /\ handPos' = dh.handPos
        /\ targetCenter' = dh.targetCenter
        /\ isHandClosed' = dh.isHandClosed
        /\ wasHandClosed' = dh.wasHandClosed
        /\ lastVideoTime' = dh.lastVideoTime
        /\ videoTime' = now
        /\ p_pos' = up.pos
        /\ p_vel' = up.vel
        /\ p_color' = up.col
        /\ lastPush' = up.pushes
        /\ lastRaw' = dh.raw
        /\ obsLog' = IF dh.observed THEN Append(obsLog, dh.isHandClosed) ELSE obsLog
        /\ splashCount' = IF dh.splash THEN splashCount + 1 ELSE splashCount
        /\ frames' = n
        /\ UNCHANGED <<edition, settings, genVars, particlesMesh, p_target, handLandmarker,
                       isWebcamRunning, events, targetWrites>>

Frame(now, lm, draws) == FrameAt(now, lm, draws, frames + 1)

\* the inputs of a frame: whether the video has advanced since the last
\* frame, what the landmarker sees in it, and the random values of a splash.
\* The video does not play before the webcam runs, and what a frame that is
\* not processed would show does not matter.
FrameInputsOf(lms) ==
    {in \in [adv : BOOLEAN, lm : lms, draws : SplashDraws(settings.count)] :
        /\ ~isWebcamRunning => ~in.adv
        /\ (~handLandmarker \/ ~isWebcamRunning \/ (~in.adv /\ videoTime = lastVideoTime))
               => (in.lm = NoHand)
        /\ ~(/\ handLandmarker /\ isWebcamRunning
             /\ in.lm # NoHand
             /\ OpenedHand(wasHandClosed, FistCheck(in.lm)))
               => in.draws = [j \in 1..(3 * settings.count) |-> 0]}

FrameInputs == FrameInputsOf(Landmarks)

\* await initVision() resolves: the landmarker is loaded, and init() goes on
\* to call animate() for the first time
VisionResolved ==
    /\ pc = "vision"
    /\ pc' = "running"
    /\ handLandmarker' = TRUE
    /\ \E up \in {UpdateParticles(p_vel, targetCenter, handPos, isHandClosed)} :
           /\ p_pos' = up.pos
           /\ p_vel' = up.vel
           /\ p_color' = up.col
           /\ lastPush' = up.pushes
    /\ frames' = frames + 1
    /\ UNCHANGED <<edition, settings, genVars, particlesMesh, p_target, handVars,
                   isWebcamRunning, lastVideoTime, videoTime, events, obsLog, splashCount,
                   targetWrites, lastRaw>>

\* variant: the failure is swallowed and init() goes on to call animate()
VisionRejectedStarts ==
    /\ pc = "vision"
    /\ pc' = "running"
    /\ \E up \in {UpdateParticles(p_vel, targetCenter, handPos, isHandClosed)} :
           /\ p_pos' = up.pos
           /\ p_vel' = up.vel
           /\ p_color' = up.col
           /\ lastPush' = up.pushes
    /\ frames' = frames + 1
    /\ UNCHANGED <<edition, settings, genVars, particlesMesh, p_target, handVars, videoVars,
                   events, obsLog, splashCount, targetWrites, lastRaw>>

\* await initVision() rejects: init() ends there and animate() is never called
VisionRejected ==
    /\ pc = "vision"
    /\ pc' = "failed"
    /\ UNCHANGED <<edition, settings, genVars, particlesMesh, bufVars, handVars, videoVars,
                   logVars>>

\* video.addEventListener("loadeddata", () => isWebcamRunning = true)
WebcamLoaded ==
    /\ pc = "running"
    /\ ~isWebcamRunning
    /\ isWebcamRunning' = TRUE
    /\ UNCHANGED <<edition, pc, settings, genVars, particlesMesh, bufVars, handVars,
                   handLandmarker, lastVideoTime, videoTime, logVars>>

\* requestAnimationFrame(animate): one more of at most `cap` calls, its
\* inputs drawn from `inputs`
AnimateUpTo(inputs, cap) ==
    /\ pc = "running"
    /\ frames < cap
    /\ \E in \in inputs :
        Frame(IF in.adv THEN videoTime + 1 ELSE videoTime, in.lm, in.draws)
    /\ pc' = pc

Animate == AnimateUpTo(FrameInputs, MaxFrames)

-----------------------------------------------------------------------------
(* setupUI: the handlers of the shape buttons and the sliders *)

\* the user can act once init() has yielded at its await; the model follows
\* at most `cap` events
UIReady(cap) == pc \in {"vision", "running", "failed"} /\ events < cap

\* variant: the copy runs the wrong way, shapes[name].set(p_target)
SetShapeReversed(cap) ==
    /\ UIReady(cap)
    /\ \E name \in ButtonNames :
        IF name \in ShapeNames
        THEN /\ shapes' = [shapes EXCEPT ![name] = SetInto(shapes[name], p_target)]
             /\ targetWrites' = targetWrites + 1
        ELSE UNCHANGED <<shapes, targetWrites>>
    /\ events' = events + 1
    /\ UNCHANGED <<edition, pc, settings, s_sphere, s_heart, s_star, s_cube, cand,
                   particlesMesh, bufVars, handVars, videoVars, frames, obsLog, splashCount,
                   lastPush, lastRaw>>

\* variant: the handler runs whenever the button is clicked, also in the
\* middle of a call of animate()
SetShapeAnyTime(cap) ==
    /\ particlesMesh /\ events < cap
    /\ \E name \in ButtonNames :
        IF name \in ShapeNames
        THEN /\ p_target' = SetInto(p_target, shapes[name])
             /\ targetWrites' = targetWrites + 1
        ELSE UNCHANGED <<p_target, targetWrites>>
    /\ events' = events + 1
    /\ UNCHANGED <<edition, pc, settings, genVars, particlesMesh, p_pos, p_vel, p_color,
                   handVars, videoVars, frames, obsLog, splashCount, lastPush, lastRaw>>

\* variant: the particles are put on the new shape at once
SetShapeTeleport(cap) ==
    /\ UIReady(cap)
    /\ \E name \in ButtonNames :
        IF name \in ShapeNames
        THEN /\ p_target' = SetInto(p_target, shapes[name])
             /\ p_pos' = SetInto(p_pos, shapes[name])
             /\ targetWrites' = targetWrites + 1
        ELSE UNCHANGED <<p_target, p_pos, targetWrites>>
    /\ events' = events + 1
    /\ UNCHANGED <<edition, pc, settings, genVars, particlesMesh, p_vel, p_color,
                   handVars, videoVars, frames, obsLog, splashCount, lastPush, lastRaw>>

\* window.setShape = (name) => { if (shapes[name]) p_target.set(shapes[name]) }
SetShapeUpTo(cap) ==
    /\ UIReady(cap)
    /\ \E name \in ButtonNames :
        IF name \in ShapeNames
        THEN /\ p_target' = SetInto(p_target, shapes[name])
             /\ targetWrites' = targetWrites + 1
        ELSE UNCHANGED <<p_target, targetWrites>>
    /\ events' = events + 1
    /\ UNCHANGED <<edition, pc, settings, genVars, particlesMesh, p_pos, p_vel, p_color,
                   handVars, videoVars, frames, obsLog, splashCount, lastPush, lastRaw>>

\* shapes[name] as the property lookup evaluates it, in the form
\* TypedArray.set reads it: the buffer for an own name; for "constructor"
\* the function Object, an array-like of length 1 whose element 0 is
\* undefined and converts to NaN; undefined (here the empty tuple) otherwise
Property(name) ==
    IF name \in ShapeNames THEN shapes[name]
    ELSE IF name = "constructor" THEN <<NaN>>
    ELSE <<>>

\* window.setShape called with any of `names`:
\* if(shapes[name]) { p_target.set(shapes[name]); ... }
SetShapeOf(names, cap) ==
    /\ UIReady(cap)
    /\ \E name \in names :
        IF Property(name) # <<>>
        THEN /\ p_target' = SetInto(p_target, Property(name))
             /\ targetWrites' = targetWrites + 1
        ELSE UNCHANGED <<p_target, targetWrites>>
    /\ events' = events + 1
    /\ UNCHANGED <<edition, pc, settings, genVars, particlesMesh, p_pos, p_vel, p_color,
                   handVars, videoVars, frames, obsLog, splashCount, lastPush, lastRaw>>

SetShape == SetShapeUpTo(MaxEvents)

\* slider-speed: settings.speed = e.target.value
SlideSpeedUpTo(cap) ==
    /\ UIReady(cap)
    /\ \E v \in SpeedValues : settings' = [settings EXCEPT !.speed = v]
    /\ events' = events + 1
    /\ UNCHANGED <<edition, pc, genVars, particlesMesh, bufVars, handVars, videoVars,
                   frames, obsLog, splashCount, targetWrites, lastPush, lastRaw>>

SlideSpeed == SlideSpeedUpTo(MaxEvents)

\* slider-force: settings.force = e.target.value
SlideForce ==
    /\ UIReady(MaxEvents)
    /\ \E v \in ForceValues : settings' = [settings EXCEPT !.force = v]
    /\ events' = events + 1
    /\ UNCHANGED <<edition, pc, genVars, particlesMesh, bufVars, handVars, videoVars,
                   frames, obsLog, splashCount, targetWrites, lastPush, lastRaw>>

-----------------------------------------------------------------------------
(* The program *)

Next ==
    \/ SphereStep
    \/ HeartDraw
    \/ HeartTest
    \/ StarStep
    \/ StarDraw
    \/ StarTest
    \/ CubeStep
    \/ AssignShapes
    \/ CreateParticles
    \/ VisionResolved
    \/ VisionRejected
    \/ WebcamLoaded
    \/ Animate
    \/ SetShape
    \/ SlideSpeed
    \/ SlideForce

Spec == Init /\ [][Next]_vars

-----------------------------------------------------------------------------
(* init() up to its await: calculateShapes and createParticles run to
   completion, every loop iteration is eventually executed *)

GenNext ==
    \/ SphereStep
    \/ HeartDraw
    \/ HeartTest
    \/ StarStep
    \/ StarDraw
    \/ StarTest
    \/ CubeStep
    \/ AssignShapes
    \/ CreateParticles

GenSpec == Init /\ [][GenNext]_vars /\ WF_vars(GenNext)

-----------------------------------------------------------------------------
(* calculateShapes alone, over more values of Math.random() *)

WideSphereStep == SphereStepFrom(WideSphereDraws)

WideHeartDraw == HeartDrawFrom(WideHeartDraws)

WideStarStep == StarStepFrom(WideStarPolarDraws)

WideStarDraw == StarDrawFrom(WideStarBoxDraws)

WideCubeStep == CubeStepFrom(WideCubeDraws)

SamplerNext ==
    \/ WideSphereStep
    \/ WideHeartDraw
    \/ HeartTest
    \/ WideStarStep
    \/ WideStarDraw
    \/ StarTest
    \/ WideCubeStep
    \/ AssignShapes

SamplerSpec == Init /\ [][SamplerNext]_vars

-----------------------------------------------------------------------------
(* The program while the camera never delivers a frame (permission denied or
   pending): detectHands returns at its first line, only the spring and the
   friction act *)

IdleInputs == {[adv |-> FALSE, lm |-> NoHand, draws |-> [j \in 1..(3 * settings.count) |-> 0]]}

RelaxAnimate == AnimateUpTo(IdleInputs, MaxRelaxFrames)

RelaxSetShape == SetShapeUpTo(MaxRelaxEvents)

RelaxSlideSpeed == SlideSpeedUpTo(MaxRelaxEvents)

RelaxNext ==
    \/ SphereStep
    \/ HeartDraw
    \/ HeartTest
    \/ StarStep
    \/ StarDraw
    \/ StarTest
    \/ CubeStep
    \/ AssignShapes
    \/ CreateParticles
    \/ VisionResolved
    \/ RelaxAnimate
    \/ RelaxSetShape
    \/ RelaxSlideSpeed

RelaxSpec == Init /\ [][RelaxNext]_vars

-----------------------------------------------------------------------------
(* The program while the camera runs and the video advances with every frame:
   a hand held at the image centre closes and opens, or leaves the picture *)

GestureInputs ==
    {in \in FrameInputsOf(CentreLandmarks) : in.adv = isWebcamRunning}

GestureAnimate == AnimateUpTo(GestureInputs, MaxGestureFrames)

GestureNext ==
    \/ SphereStep
    \/ HeartDraw
    \/ HeartTest
    \/ StarStep
    \/ StarDraw
    \/ StarTest
    \/ CubeStep
    \/ AssignShapes
    \/ CreateParticles
    \/ VisionResolved
    \/ WebcamLoaded
    \/ GestureAnimate

GestureSpec == Init /\ [][GestureNext]_vars

-----------------------------------------------------------------------------
(* The program in use: a hand at the image centre of a video that advances
   with every frame, the shape buttons and the sliders *)

PlayAnimate == AnimateUpTo(GestureInputs, MaxFrames)

PlayNext ==
    \/ SphereStep
    \/ HeartDraw
    \/ HeartTest
    \/ StarStep
    \/ StarDraw
    \/ StarTest
    \/ CubeStep
    \/ AssignShapes
    \/ CreateParticles
    \/ VisionResolved
    \/ WebcamLoaded
    \/ PlayAnimate
    \/ SetShape
    \/ SlideSpeed
    \/ SlideForce

PlaySpec == Init /\ [][PlayNext]_vars

-----------------------------------------------------------------------------
(* The calls of animate() alone, on any frame, without the buttons and sliders *)

PairAnimate == AnimateUpTo(FrameInputs, MaxPairFrames)

PairNext ==
    \/ SphereStep
    \/ HeartDraw
    \/ HeartTest
    \/ StarStep
    \/ StarDraw
    \/ StarTest
    \/ CubeStep
    \/ AssignShapes
    \/ CreateParticles
    \/ VisionResolved
    \/ WebcamLoaded
    \/ PairAnimate

PairSpec == Init /\ [][PairNext]_vars

-----------------------------------------------------------------------------
(* The program while a hand left of the image centre closes, opens, and
   leaves the picture for any number of frames; the video advances with
   every frame once the camera runs *)

LostInputs ==
    {in \in FrameInputsOf(SideLandmarks) : in.adv = isWebcamRunning}

LostAnimate == AnimateUpTo(LostInputs, MaxLostFrames)

LostNext ==
    \/ SphereStep
    \/ HeartDraw
    \/ HeartTest
    \/ StarStep
    \/ StarDraw
    \/ StarTest
    \/ CubeStep
    \/ AssignShapes
    \/ CreateParticles
    \/ VisionResolved
    \/ WebcamLoaded
    \/ LostAnimate

LostSpec == Init /\ [][LostNext]_vars

-----------------------------------------------------------------------------
(* The program while window.setShape is called with any name, between the
   frames *)

NamedAnimate == AnimateUpTo(FrameInputs, MaxPairFrames)

NamedSetShape == SetShapeOf(AnyNames, MaxShapeEvents)

NamedNext ==
    \/ SphereStep
    \/ HeartDraw
    \/ HeartTest
    \/ StarStep
    \/ StarDraw
    \/ StarTest
    \/ CubeStep
    \/ AssignShapes
    \/ CreateParticles
    \/ VisionResolved
    \/ WebcamLoaded
    \/ NamedAnimate
    \/ NamedSetShape

NamedSpec == Init /\ [][NamedNext]_vars

-----------------------------------------------------------------------------
(* The animation loop without an end: initVision resolves or rejects, the
   first MaxLoopFrames calls of animate() see an open hand at the image
   centre or none, and in the calls after them the hand is gone; the camera starts
   before those later calls, and the shape buttons are clicked before the
   first call, or never *)

\* an open hand at the image centre, or no hand
OpenLandmarks == {NoHand, Hand(50, 50, 40)}

LoopInputs ==
    {in \in FrameInputsOf(OpenLandmarks) : in.adv = isWebcamRunning}

LoopAnimate == AnimateUpTo(LoopInputs, MaxLoopFrames)

\* video.currentTime beyond MaxLoopFrames: it advances with every frame once
\* the camera runs, and only whether it differs from lastVideoTime is kept
LoopTime(t) ==
    IF ~isWebcamRunning THEN t
    ELSE IF t = MaxLoopFrames + 1 THEN MaxLoopFrames + 2 ELSE MaxLoopFrames + 1

\* the count of the calls beyond MaxLoopFrames keeps their parity only
LoopCount(n) == IF n <= MaxLoopFrames THEN n + 1 ELSE MaxLoopFrames

\* a later call of animate(), without a hand in the picture
LoopTail ==
    /\ pc = "running"
    /\ frames >= MaxLoopFrames
    /\ FrameAt(LoopTime(videoTime), NoHand, [j \in 1..(3 * settings.count) |-> 0],
               LoopCount(frames))
    /\ pc' = pc

\* loadeddata arrives during the first calls of animate()
LoopWebcamLoaded == frames < MaxLoopFrames /\ WebcamLoaded

\* a shape button is clicked while initVision is pending or after it has
\* rejected
LoopSetShape == frames = 0 /\ SetShape

\* when animate() can be called again, as far as the count tells
LoopCall ==
    /\ pc = "running"
    /\ frames' = LoopCount(frames)

LoopNext ==
    \/ SphereStep
    \/ HeartDraw
    \/ HeartTest
    \/ StarStep
    \/ StarDraw
    \/ StarTest
    \/ CubeStep
    \/ AssignShapes
    \/ CreateParticles
    \/ VisionResolved
    \/ VisionRejected
    \/ LoopWebcamLoaded
    \/ LoopAnimate
    \/ LoopTail
    \/ LoopSetShape

\* requestAnimationFrame(animate) is the first statement of animate(): the
\* browser calls animate() again after every call
LoopSpec == Init /\ [][LoopNext]_vars /\ WF_frames(LoopCall)

-----------------------------------------------------------------------------
(* A call of animate() step by step: detectHands, then the loop of
   updateParticles one particle at a time, then the render. The call is one
   synchronous function: a click handler runs only between two calls. *)

\* the position of the program when iteration i of the loop is next
LoopPc(i) ==
    CASE i = 1 -> "update1" [] i = 2 -> "update2" [] i = 3 -> "update3" [] OTHER -> "update4"

\* the particle whose iteration is next, 0 outside the loop
Cursor ==
    CASE pc = "update1" -> 1 [] pc = "update2" -> 2 [] pc = "update3" -> 3
      [] pc = "update4" -> 4 [] OTHER -> 0

\* requestAnimationFrame(animate); detectHands(): up to the start of the loop
StepDetect(now, lm, draws) ==
    \E dh \in {DetectHands(now, lm, draws)} :
        /\ handPos' = dh.handPos
        /\ targetCenter' = dh.targetCenter
        /\ isHandClosed' = dh.isHandClosed
        /\ wasHandClosed' = dh.wasHandClosed
        /\ lastVideoTime' = dh.lastVideoTime
        /\ videoTime' = now
        /\ p_vel' = dh.vel
        /\ lastPush' = Zeros(3 * settings.count)
        /\ lastRaw' = dh.raw
        /\ obsLog' = IF dh.observed THEN Append(obsLog, dh.isHandClosed) ELSE obsLog
        /\ splashCount' = IF dh.splash THEN splashCount + 1 ELSE splashCount
        /\ pc' = LoopPc(1)
        /\ UNCHANGED <<edition, settings, genVars, particlesMesh, p_pos, p_target, p_color,
                       handLandmarker, isWebcamRunning, frames, events, targetWrites>>

StepAnimate ==
    /\ pc = "running"
    /\ frames < MaxStepFrames
    /\ \E in \in FrameInputs :
        StepDetect(IF in.adv THEN videoTime + 1 ELSE videoTime, in.lm, in.draws)

\* await initVision() resolves and init() calls animate(): detectHands
\* returns at once, the webcam not running yet
StepVisionResolved ==
    /\ pc = "vision"
    /\ handLandmarker' = TRUE
    /\ lastPush' = Zeros(3 * settings.count)
    /\ pc' = LoopPc(1)
    /\ UNCHANGED <<edition, settings, genVars, particlesMesh, bufVars, handVars,
                   isWebcamRunning, lastVideoTime, videoTime, frames, events, obsLog,
                   splashCount, targetWrites, lastRaw>>

\* one iteration of the loop of updateParticles
StepUpdate ==
    /\ Cursor \in 1..settings.count
    /\ \E u \in {UpdateParticle(At(p_pos, Cursor), At(p_vel, Cursor), At(p_target, Cursor),
                                 targetCenter, handPos, isHandClosed, settings, edition)} :
           /\ p_pos' = Put(p_pos, Cursor, u.pos)
           /\ p_vel' = Put(p_vel, Cursor, u.vel)
           /\ p_color' = Put(p_color, Cursor, u.col)
           /\ lastPush' = Put(lastPush, Cursor, u.push)
    /\ pc' = IF Cursor = settings.count THEN "render" ELSE LoopPc(Cursor + 1)
    /\ UNCHANGED <<edition, settings, genVars, particlesMesh, p_target, handVars, videoVars,
                   frames, events, obsLog, splashCount, targetWrites, lastRaw>>

\* controls.update(); composer.render(): the renderer reads the position and
\* colour buffers, and animate() returns
StepRender ==
    /\ pc = "render"
    /\ pc' = "running"
    /\ frames' = frames + 1
    /\ UNCHANGED <<edition, settings, genVars, particlesMesh, bufVars, handVars, videoVars,
                   events, obsLog, splashCount, targetWrites, lastPush, lastRaw>>

StepNext ==
    \/ SphereStep
    \/ HeartDraw
    \/ HeartTest
    \/ StarStep
    \/ StarDraw
    \/ StarTest
    \/ CubeStep
    \/ AssignShapes
    \/ CreateParticles
    \/ StepVisionResolved
    \/ WebcamLoaded
    \/ StepAnimate
    \/ StepUpdate
    \/ StepRender
    \/ SetShape

StepSpec == Init /\ [][StepNext]_vars

-----------------------------------------------------------------------------
(* The program left alone after a gesture: the video advances for the first
   calls of animate(); then, no hand being in the picture, the stream stands
   still while requestAnimationFrame goes on calling animate() for ever *)

SettleAnimate == AnimateUpTo(GestureInputs, MaxSettleFrames)

\* the count of the calls beyond MaxSettleFrames keeps their parity only
SettleCount(n) == IF n = MaxSettleFrames THEN n + 1 ELSE MaxSettleFrames

\* a call of animate() on the standing video: detectHands returns at once
SettleIdle ==
    /\ pc = "running"
    /\ frames >= MaxSettleFrames
    /\ handPos = Sentinel
    /\ FrameAt(videoTime, NoHand, [j \in 1..(3 * settings.count) |-> 0], SettleCount(frames))
    /\ pc' = pc

\* when SettleIdle can be taken, and what it does to the count
SettleCall ==
    /\ pc = "running"
    /\ frames >= MaxSettleFrames
    /\ handPos = Sentinel
    /\ frames' = SettleCount(frames)

SettleNext ==
    \/ SphereStep
    \/ HeartDraw
    \/ HeartTest
    \/ StarStep
    \/ StarDraw
    \/ StarTest
    \/ CubeStep
    \/ AssignShapes
    \/ CreateParticles
    \/ VisionResolved
    \/ WebcamLoaded
    \/ SettleAnimate
    \/ SettleIdle

\* requestAnimationFrame calls animate() again after every call: the steps
\* of SettleNext that change the count there are those of SettleIdle
SettleSpec == Init /\ [][SettleNext]_vars /\ WF_frames(SettleCall)

-----------------------------------------------------------------------------
(* Properties *)

\* the particles of the mesh
Particles == 1..settings.count

Sub3(a, b) == <<Sub(a[1], b[1]), Sub(a[2], b[2]), Sub(a[3], b[3])>>

\* the scalar product, exact (at scale Scale * Scale)
Dot(a, b) ==
    IF HasNaN(a) \/ HasNaN(b) THEN NaN ELSE a[1] * b[1] + a[2] * b[2] + a[3] * b[3]

\* the world target of particle i: p_target[i] + targetCenter
WorldTarget(tgt, center, i) == Sub3(At(tgt, i), <<-center[1], -center[2], -center[3]>>)

\* a call of animate() that ran updateParticles on the mesh
Ticked == particlesMesh /\ frames' = frames + 1

\* the observations of a log that are open while the one before was closed
Openings(log) == Cardinality({k \in 2..Len(log) : log[k - 1] /\ ~log[k]})

\* C1: triggerSplash has been called exactly once for every hand observation
\* whose flag is open while the observation before it was closed, and for no
\* other observation (open -> closed, same flag twice, the first one)
C1_SplashPerOpening == splashCount = Openings(obsLog)

\* closed, closed, open, open, closed has fired exactly one splash
C1_Witness == obsLog = <<TRUE, TRUE, FALSE, FALSE, TRUE>> /\ splashCount = 1

\* every particle on its target, without velocity
AtRest == p_pos = p_target /\ p_vel = Zeros(Len(p_vel))

\* C2: from the state createParticles builds, with no hand observation, no
\* splash and no shape switch, every position stays equal to its target and
\* every velocity stays zero, after any number of ticks
C2_Equilibrium ==
    (particlesMesh /\ obsLog = <<>> /\ splashCount = 0 /\ targetWrites = 0) => AtRest

\* ten calls of animate() later a particle placed off the origin is still at rest
C2_Witness ==
    /\ particlesMesh /\ obsLog = <<>> /\ targetWrites = 0
    /\ frames >= MaxRelaxFrames
    /\ At(p_target, 1) = <<50 * Scale, 0, 0>>
    /\ AtRest

\* the squared distance of particle i from its world target
DistSq(pos, tgt, center, i) ==
    Dot(Sub3(WorldTarget(tgt, center, i), At(pos, i)), Sub3(WorldTarget(tgt, center, i), At(pos, i)))

\* the distance below which a particle counts as arrived (0.05)
Eps == Scale \div 20

\* the only user event so far was a shape switch: every particle was released
\* at rest on its sphere point, and nothing but ticks followed
Released == events = 1 /\ targetWrites = 1

\* particle i moves toward its world target
Approaching(pos, vel, tgt, center, i) ==
    Dot(Sub3(WorldTarget(tgt, center, i), At(pos, i)), At(vel, i)) > 0

\* C3 as claimed: after a release at rest every tick strictly decreases the
\* distance of a particle from its world target, as long as that distance is
\* not below epsilon
C3_StrictDecrease ==
    [][(Ticked /\ Released) =>
          \A i \in Particles :
              DistSq(p_pos, p_target, targetCenter, i) > Eps * Eps
                  => DistSq(p_pos', p_target', targetCenter', i)
                         < DistSq(p_pos, p_target, targetCenter, i)]_vars

\* C3 as the code behaves: a tick that leaves the particle moving toward its
\* target (it has not passed it) strictly decreases the distance, and the
\* distance never exceeds the displacement of the release; the approach is
\* not monotone, the particle passes the target and comes back
C3_DecreaseWhileApproaching ==
    [][(Ticked /\ Released) =>
          \A i \in Particles :
              /\ Approaching(p_pos', p_vel', p_target', targetCenter', i)
                     => DistSq(p_pos', p_target', targetCenter', i)
                            < DistSq(p_pos, p_target, targetCenter, i)
              /\ DistSq(p_pos', p_target', targetCenter', i)
                     <= DistSq(shapes.sphere, p_target', targetCenter', i)]_vars

\* a particle released at x = 0 toward x = 10 stands beyond its target, by
\* more than epsilon
C3_Witness ==
    /\ Released
    /\ At(shapes.sphere, 1) = Zero3
    /\ At(p_target, 1) = <<10 * Scale, 0, 0>>
    /\ At(p_pos, 1)[1] > 10 * Scale + Eps

\* the scene of C4: friction 0.9 (the magical draft), return strength 0.05
\* (the speed slider), no hand, particle i bound for (10, 0, 0)
C4_Scene(i) ==
    /\ edition = "magical"
    /\ settings.speed = 5
    /\ handPos = Sentinel /\ targetCenter = Zero3
    /\ i \in Particles
    /\ At(p_target, i) = <<10 * Scale, 0, 0>>

\* C4 as claimed: the first tick from rest at the origin gives velocity and
\* position (0.5, 0, 0), the second an x velocity of 0.925
C4_ClaimedNumbers ==
    [][Ticked =>
          \A i \in Particles :
              /\ (C4_Scene(i) /\ At(p_pos, i) = Zero3 /\ At(p_vel, i) = Zero3)
                     => (At(p_vel', i) = <<50, 0, 0>> /\ At(p_pos', i) = <<50, 0, 0>>)
              /\ (C4_Scene(i) /\ At(p_pos, i) = <<50, 0, 0>> /\ At(p_vel, i) = <<50, 0, 0>>)
                     => At(p_vel', i)[1] \in 92..93]_vars

\* C4 as the code computes: friction multiplies the velocity after the spring
\* term has been added, in the same tick; the first tick gives velocity and
\* position (0.45, 0, 0), the second an x velocity of
\* 0.9 * (0.45 + 0.05 * (10 - 0.45)) = 0.83475
C4_FrictionAfterSpring ==
    [][Ticked =>
          \A i \in Particles :
              /\ (C4_Scene(i) /\ At(p_pos, i) = Zero3 /\ At(p_vel, i) = Zero3)
                     => (At(p_vel', i) = <<45, 0, 0>> /\ At(p_pos', i) = <<45, 0, 0>>)
              /\ (C4_Scene(i) /\ At(p_pos, i) = <<45, 0, 0>> /\ At(p_vel, i) = <<45, 0, 0>>)
                     => (At(p_vel', i)[1] \in 83..84 /\ At(p_pos', i)[1] = 45 + At(p_vel', i)[1])]_vars

\* the state after the second tick
C4_Witness ==
    \E i \in Particles :
        /\ C4_Scene(i)
        /\ At(p_vel, i)[1] \in 83..84
        /\ At(p_pos, i)[1] = 45 + At(p_vel, i)[1]

\* the hand-interaction contribution `push` of one tick to a particle at
\* offset d = position - handPos has the direction the gesture asks for
Directed(push, d, closed) ==
    IF closed THEN Gt(Dot(push, <<Neg(d[1]), Neg(d[2]), Neg(d[3])>>), 0)
    ELSE Gt(Dot(push, d), 0)

C6_NoNaNStored == ~HasNaN(p_pos) /\ ~HasNaN(p_vel)

\* C7: while handPos is the sentinel no particle receives a hand-interaction
\* contribution in a tick
C7_NoPushWithoutHand ==
    (handPos = Sentinel /\ lastPush # <<>>) => lastPush = Zeros(Len(lastPush))

\* the hand has been seen, has stirred the particles and is lost again
C7_Witness ==
    /\ handPos = Sentinel
    /\ obsLog # <<>>
    /\ lastPush # <<>> /\ lastPush = Zeros(Len(lastPush))
    /\ ~AtRest /\ ~HasNaN(p_pos)

C9_ShapeLengths ==
    (pc \notin {"sphere", "heart", "heartTest", "star", "starTest", "cube", "assign"})
        => \A name \in ShapeNames : Len(shapes[name]) = 3 * settings.count

\* calculateShapes has returned for the largest count
C9_Witness ==
    /\ pc = "create"
    /\ settings.count = NumParticles
    /\ \A name \in ShapeNames : Len(shapes[name]) = 3 * NumParticles

\* C10 as claimed: shape generation comes to an end, by success or by a failure
C10_GenerationEnds == <>(pc \notin {"sphere", "heart", "heartTest", "star", "starTest", "cube", "assign"})

-----------------------------------------------------------------------------
(* The shapes *)

\* the shapes have been assigned
Shaped == pc \notin {"sphere", "heart", "heartTest", "star", "starTest", "cube", "assign"}

\* the angular distance of a star point from the bisector of its sector, the
\* sectors counted as each draft counts them
StarFold(p, ed) ==
    LET w == Div(Mul(Pi, 2 * Scale), 5 * Scale)
        a == Atan2(p[2], p[1])
        angle == IF ed = "magical" THEN Add(a, Div(Pi, 2 * Scale))
                 ELSE IF a < 0 THEN Add(a, Mul(Pi, 2 * Scale)) ELSE a
    IN  Abs(Sub(JSMod(angle, w), Div(w, 2 * Scale)))

\* the radius interpolated between outer at the bisector (fold = 0) and inner
\* at the sector boundary (fold = half a sector)
Interpolated(fold, outer, inner) ==
    LET half == Div(Div(Mul(Pi, 2 * Scale), 5 * Scale), 2 * Scale)
        t == Div(fold, half)
    IN  Add(Mul(outer, Sub(Scale, t)), Mul(inner, t))

StarInner(ed) == IF ed = "magical" THEN 50 * Scale ELSE 55 * Scale

StarDepth(ed) == IF ed = "magical" THEN 30 * Scale ELSE 25 * Scale

\* C11: every star point lies below the radius interpolated from the outer tip
\* radius at the bisector of its sector to the inner valley radius at the sector
\* boundary, and within the slab: its third coordinate is at most half the depth
C11_StarBelowInterpolation ==
    Shaped =>
        \A i \in 1..settings.count :
            LET p == At(shapes.star, i)
            IN  /\ Lt(StarDist(p), Interpolated(StarFold(p, edition), 130 * Scale, StarInner(edition)))
                /\ Abs(p[3]) <= StarDepth(edition) \div 2

\* the slack granted to the rounding of the sine and cosine
Tolerance == Scale \div 2

NormSq(p) == p[1] * p[1] + p[2] * p[2] + p[3] * p[3]

\* a heart point divided by the heart scale
Unscaled(p) == <<Div(p[1], 70 * Scale), Div(p[2], 70 * Scale), Div(p[3], 70 * Scale)>>

\* C12: every sphere point has norm at most the sphere radius 100, every cube
\* point has each coordinate of absolute value at most half the side 160, and
\* every heart point divided by the heart scale 70 passes the acceptance test
C12_ShapesContained ==
    Shaped =>
        \A i \in 1..settings.count :
            /\ NormSq(At(shapes.sphere, i)) <= (100 * Scale + Tolerance) * (100 * Scale + Tolerance)
            /\ \A k \in 1..3 : Abs(At(shapes.cube, i)[k]) <= 80 * Scale
            /\ HeartInside(Unscaled(At(shapes.heart, i)), edition)

\* a sphere point on the surface, a cube point on a face, a heart point off the origin
C12_Witness ==
    /\ Shaped
    /\ \E i \in 1..settings.count :
           /\ NormSq(At(shapes.sphere, i)) >= (100 * Scale) * (100 * Scale)
           /\ At(shapes.cube, i)[1] = -80 * Scale
           /\ At(shapes.heart, i) # Zero3

-----------------------------------------------------------------------------
(* Rest after an impulse *)

\* an impulse has occurred, the hand is lost and the video stands still: no
\* further impulse can occur, and handPos is the far sentinel
LeftAlone ==
    /\ pc = "running" /\ frames >= MaxSettleFrames
    /\ splashCount > 0
    /\ handPos = Sentinel

\* every particle within eps of its world target, slower than eps
NearRest(eps) ==
    particlesMesh /\ \A i \in Particles :
        /\ ~HasNaN(At(p_pos, i)) /\ ~HasNaN(At(p_vel, i))
        /\ DistSq(p_pos, p_target, targetCenter, i) <= eps * eps
        /\ Dot(At(p_vel, i), At(p_vel, i)) < eps * eps

\* the epsilon of rest (0.5, on shapes of radius 100): the rounding to
\* 1/Scale keeps a particle circling its target at a few tenths
RestEps == 10 * Eps

\* no position is NaN
Clean == \A i \in Particles : ~HasNaN(At(p_pos, i))

\* left alone without a NaN in the buffers, the particles do return to rest
RestWithoutNaN == (LeftAlone /\ particlesMesh /\ Clean) ~> [](NearRest(RestEps))

\* C13: after an impulse, with no further impulse and no particle within the
\* interaction radius of handPos, eventually every particle is within epsilon
\* of its world target, slower than epsilon, and stays so
C13_ReturnsToRest == LeftAlone ~> [](NearRest(RestEps))

-----------------------------------------------------------------------------
(* The impulse *)

\* a call of animate() in which detectHands called triggerSplash
Splashed == splashCount' = splashCount + 1

\* what triggerSplash adds to the velocity of particle i when Math.random()
\* returns the values d
Kick(d, i) == Sub3(At(TriggerSplash(p_vel, d, settings.force, edition), i), At(p_vel, i))

\* C14: the kick an impulse gives a particle displaced from the shape origin
\* is outward: its component along position - shapeOrigin is not negative
C14_OutwardKick ==
    [][Splashed =>
          \A d \in SplashDraws(settings.count) : \A i \in Particles :
              (~HasNaN(At(p_pos, i)) /\ ~HasNaN(At(p_vel, i)) /\ At(p_pos, i) # targetCenter')
                  => Dot(Kick(d, i), Sub3(At(p_pos, i), targetCenter')) >= 0]_vars

-----------------------------------------------------------------------------
(* The particle buffers *)

\* C15: once createParticles has run, the position, target, velocity and
\* colour buffers all have length 3 * N, whatever ticks, impulses, shape
\* switches and slider changes have occurred
C15_BufferLengths ==
    particlesMesh =>
        /\ Len(p_pos) = 3 * settings.count
        /\ Len(p_target) = 3 * settings.count
        /\ Len(p_vel) = 3 * settings.count
        /\ Len(p_color) = 3 * settings.count

\* ticks, an impulse and a shape switch have occurred
C15_Witness ==
    /\ particlesMesh /\ frames >= 3 /\ splashCount = 1 /\ targetWrites = 1
    /\ Len(p_pos) = 3 * settings.count /\ settings.count = NumParticles

\* C16: once calculateShapes has assigned them, the four shape buffers never
\* change: no tick, impulse, shape switch or hand observation writes to them
C16_ShapesFrozen == [][Shaped => shapes' = shapes]_vars

\* the particles have left the sphere points they were copied from, under a
\* hand, and the target has been switched
C16_Witness ==
    /\ particlesMesh /\ obsLog # <<>> /\ targetWrites = 1
    /\ p_pos # shapes.sphere /\ p_target # shapes.sphere
    /\ shapes.sphere = s_sphere

\* setShape has copied a shape into the target buffer
Switched == events' = events + 1 /\ targetWrites' = targetWrites + 1

\* C17: selecting a shape overwrites the target buffer only: the position,
\* velocity and colour buffers and the influence state are after setShape what
\* they were before it
C17_SetShapeFrame ==
    [][Switched =>
          /\ \E name \in ShapeNames : p_target' = shapes[name]
          /\ UNCHANGED <<p_pos, p_vel, p_color, handVars>>]_vars

\* the target is the cube while the particles, which a hand has stirred, are
\* neither on the cube nor on the sphere
C17_Witness ==
    /\ particlesMesh /\ targetWrites = 1 /\ obsLog # <<>>
    /\ p_target = shapes.cube
    /\ p_pos # shapes.cube /\ p_pos # shapes.sphere

\* the influence state detectHands leaves when the frame has the inputs `in`
AfterDetectHands(in) ==
    LET dh == DetectHands(IF in.adv THEN videoTime + 1 ELSE videoTime, in.lm, in.draws)
    IN  <<dh.handPos, dh.targetCenter, dh.isHandClosed, dh.wasHandClosed>>

\* C18: a tick of updateParticles changes neither the influence state (after
\* the call of animate() it is what detectHands has left), nor the target
\* buffer, nor the settings
C18_TickFrame ==
    [][Ticked =>
          /\ p_target' = p_target
          /\ settings' = settings
          /\ \E in \in FrameInputsOf(Landmarks \cup CentreLandmarks) :
                 handVars' = AfterDetectHands(in)]_vars

\* a tick under a hand has moved the particles off their unchanged targets
C18_Witness ==
    /\ particlesMesh /\ lastRaw # <<>> /\ targetWrites = 0
    /\ handPos # Sentinel
    /\ p_target = shapes.sphere
    /\ p_pos # p_target

-----------------------------------------------------------------------------
(* The colours *)

\* updateParticles has run on the mesh at least once
TickedOnce == particlesMesh /\ frames >= 1

\* the colour c is the one prescribed for the velocity v: base at a speed not
\* above thr, else base plus a blend factor in [0, 1] times hot
ColorLaw(v, c, base, hot, thr) ==
    IF Gt(SpeedOf(v), thr)
    THEN \E blend \in 0..Scale :
             c = <<Add(base[1], Mul(blend, hot[1])), Add(base[2], Mul(blend, hot[2])),
                   Add(base[3], Mul(blend, hot[3]))>>
    ELSE c = base

\* C19 as claimed: after any tick the colour of each particle is the base
\* colour (0.1, 0.2, 0.8) when its speed is at or below the threshold, and
\* otherwise the base colour plus a blend factor in [0, 1] times the hot offset
C19_ColorOfSpeed ==
    TickedOnce =>
        \A i \in Particles :
            ColorLaw(At(p_vel, i), At(p_color, i), <<10, 20, 80>>, HotOffset(edition),
                     SpeedThreshold(edition))

\* C19: after any tick the colour of each particle is a function of its
\* velocity alone: the base colour of the draft, (0.1, 0.2, 0.8) in the
\* ultimate and (0.1, 0.3, 0.8) in the magical one, when its speed is at or
\* below the draft's threshold (2.5, 2.0), and otherwise the base colour plus
\* a blend factor in [0, 1] times the draft's hot offset
C19_ColorOfSpeedPerDraft ==
    TickedOnce =>
        \A i \in Particles :
            ColorLaw(At(p_vel, i), At(p_color, i),
                     IF edition = "ultimate" THEN <<10, 20, 80>> ELSE <<10, 30, 80>>,
                     IF edition = "ultimate" THEN <<90, 70, 20>> ELSE <<90, 60, 20>>,
                     IF edition = "ultimate" THEN 250 ELSE 200)

\* after a splash one particle is fast and fully hot while another is slow
\* and has the base colour
C19_Witness ==
    /\ TickedOnce /\ splashCount = 1 /\ settings.count = 2
    /\ \E i, j \in Particles :
           /\ Gt(SpeedOf(At(p_vel, i)), 10 * Scale)
           /\ At(p_color, i) = <<100, 90, 100>>
           /\ ~Gt(SpeedOf(At(p_vel, j)), SpeedThreshold(edition))
           /\ At(p_color, j) = BaseColor(edition)

-----------------------------------------------------------------------------
(* The particles are independent *)

\* the velocities updateParticles starts from in this call of animate(),
\* when Math.random() returns the values d to a splash
VelocityIn(d) ==
    IF splashCount' = splashCount THEN p_vel
    ELSE TriggerSplash(p_vel, d, settings.force, edition)

\* buf with every particle but i overwritten by the vector w
Others(buf, i, w) ==
    [j \in 1..Len(buf) |->
        IF (j + 2) \div 3 = i THEN buf[j] ELSE w[((j - 1) % 3) + 1]]

\* other states for the other particles
OtherStates == {<<70 * Scale, -30 * Scale, 10 * Scale>>, <<-5 * Scale, 0, 2 * Scale>>}

\* position, velocity and colour of a result of the loop or of one iteration
Outcome(u) == <<u.pos, u.vel, u.col>>

\* what one iteration of the loop gives particle i from the buffers as they
\* were before the loop
Alone(i, vin) ==
    Outcome(UpdateParticle(At(p_pos, i), At(vin, i), At(p_target, i), targetCenter', handPos',
                           isHandClosed', settings, edition))

\* the outcome for particle i in buffers that hold all the particles
OutcomeAt(u, i) == <<At(u.pos, i), At(u.vel, i), At(u.col, i)>>

\* what the whole loop gives particle i when run on buffers in which the
\* other particles are in state w
WithOthers(i, vin, w) ==
    OutcomeAt(UpdateLoop(1, Others(p_pos, i, w), Others(vin, i, w), p_color,
                         Zeros(3 * settings.count), Others(p_target, i, w), targetCenter',
                         handPos', isHandClosed', settings, edition), i)

\* the tick has given every particle what it gets alone and among others
Independent(vin) ==
    \A i \in Particles :
        /\ <<At(p_pos', i), At(p_vel', i), At(p_color', i)>> = Alone(i, vin)
        /\ \A w \in OtherStates :
               <<At(p_pos', i), At(p_vel', i), At(p_color', i)>> = WithOthers(i, vin, w)

\* C20: in a tick the new position, velocity and colour of particle i are
\* what one iteration gives from particle i's own previous position, velocity
\* and target and the shared influence state and settings (the loop in place
\* equals an update that reads the old state), and a run in which only the
\* other particles differ gives particle i the same results
C20_ParticlesIndependent ==
    [][Ticked => \E vin \in {VelocityIn(d) : d \in SplashDraws(settings.count)} :
                    Independent(vin)]_vars

\* two particles in different states have both been moved by the last tick
C20_Witness ==
    /\ particlesMesh /\ frames >= 2 /\ settings.count = 2
    /\ ~HasNaN(p_vel)
    /\ At(p_vel, 1) # Zero3 /\ At(p_vel, 2) # Zero3
    /\ At(p_vel, 1) # At(p_vel, 2)
    /\ At(p_pos, 1) # At(p_pos, 2)

-----------------------------------------------------------------------------
(* The integration step *)

\* f * (v_old + spring + proximity) on the three axes, spring and proximity
\* taken at the position p from before the tick
Damped(p, v, t, prox) ==
    [k \in 1..3 |->
        Mul(Add(Add(v[k], Mul(Sub(Add(t[k], targetCenter'[k]), p[k]), settings.speed)), prox[k]),
            Friction(edition))]

\* particle i has got the velocity nv and has been advanced by it
SteppedBy(i, nv) ==
    /\ At(p_vel', i) = <<nv[1], nv[2], nv[3]>>
    /\ At(p_pos', i) = <<Add(At(p_pos, i)[1], nv[1]), Add(At(p_pos, i)[2], nv[2]),
                        Add(At(p_pos, i)[3], nv[3])>>

\* C21: in every tick, for every particle, v_new = f * (v_old + spring +
\* proximity), the two terms computed from the position before the tick, and
\* position_new = position_old + v_new
C21_SemiImplicitEuler ==
    [][Ticked =>
          \E vin \in {VelocityIn(d) : d \in SplashDraws(settings.count)} :
              \A i \in Particles :
                  SteppedBy(i, Damped(At(p_pos, i), At(vin, i), At(p_target, i),
                                      HandInteraction(At(p_pos, i), handPos', isHandClosed',
                                                      settings.radius)))]_vars

\* a particle already displaced and moving has been pushed by the hand
C21_Witness ==
    /\ particlesMesh /\ frames >= 3
    /\ \E i \in Particles :
           /\ ~HasNaN(At(p_pos, i)) /\ ~HasNaN(At(p_vel, i))
           /\ At(lastPush, i) # Zero3
           /\ At(p_vel, i) # Zero3
           /\ At(p_pos, i) # WorldTarget(p_target, targetCenter, i)

-----------------------------------------------------------------------------
(* One observation and one impulse a tick *)

\* the tick has run on the velocities the splash with the values d has left
KickedThenTicked(d) ==
    \A i \in Particles :
        <<At(p_pos', i), At(p_vel', i), At(p_color', i)>>
            = Alone(i, TriggerSplash(p_vel, d, settings.force, edition))

\* C22: a step processes at most one hand observation and fires at most one
\* impulse, both only in a call of animate(), and the impulse of a call is in
\* the velocities before the updateParticles of that call runs
C22_OneImpulsePerTick ==
    [][/\ Len(obsLog') <= Len(obsLog) + 1
       /\ splashCount' <= splashCount + 1
       /\ (obsLog' # obsLog \/ splashCount' # splashCount) => Ticked
       /\ Splashed => \E d \in SplashDraws(settings.count) : KickedThenTicked(d)]_vars

\* the call of animate() that saw the fist open has left a fast particle
C22_Witness ==
    /\ particlesMesh /\ obsLog = <<TRUE, FALSE>> /\ splashCount = 1
    /\ \E i \in Particles : Gt(SpeedOf(At(p_vel, i)), 10 * Scale)

-----------------------------------------------------------------------------
(* The order of the steps of a frame *)

\* nothing of particle j changes in the particle buffers
Untouched(j) ==
    /\ At(p_pos', j) = At(p_pos, j)
    /\ At(p_vel', j) = At(p_vel, j)
    /\ At(p_color', j) = At(p_color, j)

\* C23: in a call of animate() the loop of updateParticles starts right after
\* detectHands, its iterations follow one another without any other step in
\* between, each writing its own particle only, and the render follows the
\* last of them: the renderer reads buffers in which every particle has been
\* updated, and between the start of the loop and the render no shape
\* switch, impulse or hand observation takes effect
C23_FrameOrder ==
    [][/\ pc' = "update1" => pc \in {"vision", "running"}
       /\ Cursor # 0 =>
              /\ pc' = IF Cursor = settings.count THEN "render" ELSE LoopPc(Cursor + 1)
              /\ \A j \in Particles \ {Cursor} : Untouched(j)
              /\ UNCHANGED <<p_target, handVars, settings, splashCount, obsLog, events>>
       /\ pc' = "render" => Cursor = settings.count
       /\ pc = "render" =>
              /\ pc' = "running"
              /\ UNCHANGED <<bufVars, handVars, settings, splashCount, obsLog, events>>]_vars

\* the render is next, both particles have been moved by the hand in this
\* call, and a shape had been switched before it
C23_Witness ==
    /\ pc = "render" /\ settings.count = 2 /\ targetWrites = 1
    /\ At(lastPush, 1) # Zero3 /\ At(lastPush, 2) # Zero3

-----------------------------------------------------------------------------
(* The smoothed position *)

\* detectHands has processed a video frame in this call of animate()
Processed == lastVideoTime' # lastVideoTime

\* where the smoothed position is heading in a processed frame: the observed
\* position of the hand, or the world origin when there is none
Destination == IF lastRaw' # <<>> THEN lastRaw' ELSE Zero3

\* the fraction of the way taken
Fraction == IF lastRaw' # <<>> THEN FollowAlpha(edition) ELSE RelaxAlpha

\* on axis k the step from a to a2 toward b is the fraction alpha of the
\* way, brings a2 no farther from b than a was and not beyond b
FractionStep(a, a2, b, alpha) ==
    /\ a2 = a + Mul(b - a, alpha)
    /\ Abs(b - a2) <= Abs(b - a)
    /\ (b - a2) * (b - a) >= 0

\* C24: every processed video frame moves targetCenter a fixed fraction of
\* the way toward its destination, the observed position when a hand is
\* present and the world origin, with a strictly smaller fraction, when none
\* is; its distance to the destination does not increase and it does not
\* overshoot
C24_SmoothedStep ==
    [][Processed =>
          /\ RelaxAlpha < FollowAlpha(edition)
          /\ \A k \in 1..3 :
                 FractionStep(targetCenter[k], targetCenter'[k], Destination[k], Fraction)]_vars

\* the smoothed position, having followed a hand off the centre, is on its
\* way back to the origin
C24_Witness ==
    /\ obsLog # <<>> /\ lastRaw = <<>> /\ handPos = Sentinel
    /\ targetCenter[1] > 0 /\ targetCenter[1] < 15 * Scale

-----------------------------------------------------------------------------
(* The gesture flags *)

\* C25: between the calls of detectHands wasHandClosed equals isHandClosed
C25_FlagsAgree == wasHandClosed = isHandClosed

\* a hand seen open, then closed, is lost: both flags stay closed
C25_Witness ==
    /\ obsLog = <<FALSE, TRUE>> /\ handPos = Sentinel
    /\ isHandClosed /\ wasHandClosed

-----------------------------------------------------------------------------
(* Losing the hand and seeing it again *)

\* the hand has been seen and the last processed frame showed none
Lost == obsLog # <<>> /\ handPos = Sentinel

\* the gesture flag of the last frame that showed a hand
LastSeen == obsLog[Len(obsLog)]

\* this step's frame shows a hand
Seen == obsLog' # obsLog

\* C26: while the hand is lost both gesture flags keep the flag of the last
\* frame that showed it and no impulse fires; the first frame that shows a
\* hand again fires one impulse if that flag was closed and the hand is now
\* open, and none otherwise
C26_Reacquired ==
    [][Lost =>
        /\ isHandClosed = LastSeen /\ wasHandClosed = LastSeen
        /\ ~Seen => splashCount' = splashCount
        /\ Seen /\ LastSeen /\ ~isHandClosed' => splashCount' = splashCount + 1
        /\ Seen /\ ~(LastSeen /\ ~isHandClosed') => splashCount' = splashCount]_vars

\* a fist seen left of the centre, two frames without a hand, then the open
\* hand: the centre went 15, 14.25, 13.54 and then 26.51, and one impulse fired
C26_Witness ==
    /\ obsLog = <<TRUE, FALSE>> /\ splashCount = 1
    /\ lastVideoTime = 4
    /\ targetCenter[1] > 26 * Scale /\ targetCenter[1] < 27 * Scale

-----------------------------------------------------------------------------
(* The target buffer *)

\* the shapes the target buffer equals over its whole length
TargetShapes == {name \in ShapeNames : p_target = shapes[name]}

\* C27: once createParticles has run the target buffer equals, over its
\* whole length, one of the four shape buffers, whatever names setShape has
\* been called with (two shape buffers may hold the same values, and the
\* target then equals both)
C27_TargetIsOneShape == particlesMesh => TargetShapes # {}

-----------------------------------------------------------------------------
(* Frames that detectHands does not process *)

\* detectHands returns at once in this step's frame: no landmarker, no
\* running webcam, or video.currentTime still at lastVideoTime
Skipped ==
    \/ ~handLandmarker'
    \/ ~isWebcamRunning
    \/ videoTime' = lastVideoTime

\* C28: in a frame that detectHands does not process the hand position, the
\* smoothed centre and both gesture flags stay as they are and no impulse
\* fires, and updateParticles moves every particle under that unchanged
\* influence state
C28_SkippedFrame ==
    [][Ticked /\ Skipped =>
          /\ UNCHANGED <<handPos, targetCenter, isHandClosed, wasHandClosed>>
          /\ UNCHANGED <<lastVideoTime, obsLog, splashCount>>
          /\ \A i \in Particles :
                 SteppedBy(i, Damped(At(p_pos, i), At(p_vel, i), At(p_target, i),
                                     HandInteraction(At(p_pos, i), handPos, isHandClosed,
                                                     settings.radius)))]_vars

\* the video stood still in the last frame while the hand position of an
\* earlier frame was in force: a particle was pushed by it and has moved
C28_Witness ==
    /\ obsLog # <<>> /\ lastRaw = <<>> /\ handPos # Sentinel
    /\ frames >= 3
    /\ \E i \in Particles :
           /\ At(lastPush, i) # Zero3
           /\ At(p_vel, i) # Zero3
           /\ \A k \in 1..3 : At(p_pos, i)[k] # NaN

-----------------------------------------------------------------------------
(* The animation loop and initVision *)

\* the buffers updateParticles writes hold what createParticles put there
InitialMotion ==
    /\ p_pos = shapes.sphere
    /\ p_vel = Zeros(3 * settings.count)
    /\ p_color = Repeat(InitialColor(edition), settings.count)

\* animate() is called in this step
Called == frames' # frames

\* animate() runs only once initVision has resolved, and after a rejection
\* it never runs; once it has run it is called again and again
LoopLaw ==
    /\ [][/\ Called => handLandmarker' /\ pc' = "running"
          /\ pc = "failed" => pc' = "failed"]_vars
    /\ <>(pc = "running") => []<><<Called>>_frames

\* C29 as claimed: until initVision resolves, and for ever if it rejects, no
\* call of animate() has happened and all four particle buffers hold their
\* initial values
C29_AsClaimed ==
    /\ []((particlesMesh /\ pc # "running")
             => (frames = 0 /\ InitialMotion /\ p_target = shapes.sphere))
    /\ LoopLaw

\* C29: until initVision resolves, and for ever if it rejects, no call of
\* animate() has happened and the position, velocity and colour buffers hold
\* their initial values, while the target buffer changes in a call of setShape
\* only; once animate() has been called it is called again and again
C29_LoopAfterVision ==
    /\ []((particlesMesh /\ pc # "running") => (frames = 0 /\ InitialMotion))
    /\ [][(particlesMesh /\ pc # "running" /\ p_target' # p_target)
             => events' = events + 1]_vars
    /\ LoopLaw

\* initVision has rejected and a shape button has been clicked since: the
\* target is the cube and the particles are where createParticles put them
C29_Witness ==
    /\ pc = "failed" /\ frames = 0 /\ targetWrites = 1
    /\ p_target = shapes.cube /\ p_target # shapes.sphere
    /\ InitialMotion


====
